---- MODULE Spec2Model ----
(***************************************************************************)
(* Reserve-aware rebalancing of the FOMO Insurance vault agent             *)
(* (src/vault_agent/fomo_integration.py, src/vault_agent/APY_agent.py),    *)
(* its server (fastapi_server.py) and its APY cache (api_integrations.py). *)
(*                                                                         *)
(* Python floats are modelled as exact rationals [n, d] (d > 0, lowest     *)
(* terms): every +, -, *, / and comparison of the source is the exact one. *)
(* IEEE-754 rounding (relative error below 1e-15) is not modelled.         *)
(* An Optional[int] is <<>> (None) or <<v>>.                               *)
(*                                                                         *)
(* Spec          one cycle after the other on snapshots with liquidity >= 0*)
(* SpecUnchecked the same cycle on snapshots whose liquidity may be < 0    *)
(* SpecSnapshot  get_protocol_snapshot against the data the chain returns  *)
(* SpecLoop      enhanced_monitoring_loop with its running flag, on the    *)
(*               snapshots get_protocol_snapshot builds                    *)
(* SpecRequests  the requests served beside the loop: the background tasks *)
(*               of POST /api/vault/rebalance, calls of the                *)
(*               execute_rebalance tool, POST /api/vault/allocate          *)
(* SpecEvents    handle_policy_event and the handlers of the policy events *)
(* SpecGraph     the workflow graph of create_mantle_vault_agent as        *)
(*               start_monitoring invokes it (SpecGraphFair: with the      *)
(*               event loop running every coroutine that can go on)        *)
(* SpecBroadcast ConnectionManager of the server and its broadcast         *)
(* SpecApyCache  MantleAPIManager.get_all_strategy_apys and its cache      *)
(***************************************************************************)
EXTENDS Integers, Sequences, FiniteSets, TLC

(***************************************************************************)
(* Bounds of the model.                                                    *)
(***************************************************************************)
\* number of distinct leading policies of an input snapshot's active list
MaxVaried == 1
\* the current time (seconds) at which time_to_expiry is evaluated
Now == 10000
\* number of open policy ids the chain reports to get_protocol_snapshot
MaxOpen == 2
\* number of requests (POST /api/vault/rebalance, POST /api/vault/allocate,
\* calls of the execute_rebalance tool)
MaxTasks == 2
\* number of websocket clients that connect to the server
MaxConnections == 3
\* the last time (seconds) at which the clock of the APY cache is advanced
MaxTime == 600

(***************************************************************************)
(* Exact rational arithmetic standing for Python float arithmetic.         *)
(***************************************************************************)
Abs(x) == IF x < 0 THEN 0 - x ELSE x

RECURSIVE GCD(_, _)
GCD(a, b) == IF b = 0 THEN a ELSE GCD(b, a % b)

R(n, d) ==
    LET g == GCD(Abs(n), d)
    IN  [n |-> n \div g, d |-> d \div g]

RInt(k) == [n |-> k, d |-> 1]
RZero == RInt(0)
RAdd(a, b) ==
    LET g == GCD(a.d, b.d)
    IN  R(a.n * (b.d \div g) + b.n * (a.d \div g), (a.d \div g) * b.d)
RNeg(a) == [n |-> 0 - a.n, d |-> a.d]
RSub(a, b) == RAdd(a, RNeg(b))
RMul(a, b) ==
    LET g1 == GCD(Abs(a.n), b.d)
        g2 == GCD(Abs(b.n), a.d)
    IN  R((a.n \div g1) * (b.n \div g2), (a.d \div g2) * (b.d \div g1))
\* a / b for b > 0 (the source divides only by positive values)
RDiv(a, b) == RMul(a, [n |-> b.d, d |-> b.n])
RLt(a, b) ==
    LET g == GCD(a.d, b.d)
    IN  a.n * (b.d \div g) < b.n * (a.d \div g)
RLe(a, b) == ~RLt(b, a)
RGt(a, b) == RLt(b, a)
RMax(a, b) == IF RLt(a, b) THEN b ELSE a
RMin(a, b) == IF RLt(b, a) THEN b ELSE a

RECURSIVE RSumSeq(_)
RSumSeq(s) == IF s = <<>> THEN RZero ELSE RAdd(Head(s), RSumSeq(Tail(s)))

RMaxOf(S) == CHOOSE x \in S : \A y \in S : RLe(y, x)
RMinOf(S) == CHOOSE x \in S : \A y \in S : RLe(x, y)

(***************************************************************************)
(* PolicyInfo                                                              *)
(***************************************************************************)
None == <<>>
Some(v) == <<v>>

Policy(st, payout, expiry) ==
    [state |-> st, payout_amount |-> payout, expiry_timestamp |-> expiry]

is_active(p) == p.state = "Active"

\* Python truthiness of an Optional[int]: None and 0 are falsy
Truthy(opt) == opt # None /\ opt[1] # 0

time_to_expiry(p) ==
    IF Truthy(p.expiry_timestamp)
    THEN Some(IF p.expiry_timestamp[1] - Now > 0 THEN p.expiry_timestamp[1] - Now ELSE 0)
    ELSE None

required_reserve(p) == IF is_active(p) THEN p.payout_amount ELSE RZero

RECURSIVE SumRequiredReserve(_)
SumRequiredReserve(ps) ==
    IF ps = <<>> THEN RZero
    ELSE RAdd(required_reserve(Head(ps)), SumRequiredReserve(Tail(ps)))

(***************************************************************************)
(* ProtocolSnapshot                                                        *)
(***************************************************************************)
ProtocolSnapshot(total, active, open, reserves, liquidity, pending) ==
    [total_policies |-> total, active_policies |-> active, open_policies |-> open,
     total_reserves_required |-> reserves, available_liquidity |-> liquidity,
     pending_settlements |-> pending]

NoSnapshot == ProtocolSnapshot(0 - 1, <<>>, <<>>, RZero, RZero, <<>>)

(***************************************************************************)
(* Strategy adapters (StrategyManager and the three strategies)            *)
(***************************************************************************)
\* the order of the literal lists and dicts of the source
StrategyNames == <<"init_looping", "circuit_vault", "mnt_staking">>
Strategies == {StrategyNames[i] : i \in 1..Len(StrategyNames)}

\* values the mocked feeds of the strategies deliver in this model
InitLeveragedValues == {RInt(0 - 1), R(46, 10)}
CircuitBaseValues == {RInt(4)}
MntStakingValues == {R(38, 10)}
MntNetworkFeeValues == {R(7, 10)}

\* what one call of a strategy's feeds gives: the values, or None when a
\* fetch raises
InitLeveragedReads == {None} \cup {Some(x) : x \in InitLeveragedValues}
CircuitBaseReads == {None} \cup {Some(b) : b \in CircuitBaseValues}
MntStakingReads ==
    {None} \cup {Some(<<b, f>>) : b \in MntStakingValues, f \in MntNetworkFeeValues}

\* faulty variant: the except block returns 0.0, as for an unknown strategy
INITLoopingGetCurrentApyNoFallback(read) ==
    IF read = None THEN RZero ELSE RMax(RZero, read[1])

\* INITLoopingStrategy.get_current_apy: max(0, leveraged), or the fallback
\* of the except block
INITLoopingGetCurrentApy(read) ==
    IF read = None THEN R(85, 10) ELSE RMax(RZero, read[1])
\* CircuitProtocolStrategy.get_current_apy: base * 1.15, or the fallback
CircuitProtocolGetCurrentApy(read) ==
    IF read = None THEN R(68, 10) ELSE RMul(read[1], R(115, 100))
\* MNTStakingStrategy.get_current_apy: staking + fees, or the fallback
MNTStakingGetCurrentApy(read) ==
    IF read = None THEN R(45, 10) ELSE RAdd(read[1][1], read[1][2])

InitLoopingApy == {INITLoopingGetCurrentApy(r) : r \in InitLeveragedReads}
CircuitVaultApy == {CircuitProtocolGetCurrentApy(r) : r \in CircuitBaseReads}
MntStakingApy == {MNTStakingGetCurrentApy(r) : r \in MntStakingReads}

\* StrategyManager.get_strategy_apy: the values one call may return
get_strategy_apy(name) ==
    CASE name = "init_looping" -> InitLoopingApy
      [] name = "circuit_vault" -> CircuitVaultApy
      [] name = "mnt_staking" -> MntStakingApy
      [] OTHER -> {RZero}

\* the outcomes of the feeds in one read of every strategy
FeedReads ==
    {[s \in Strategies |->
         CASE s = "init_looping" -> i
           [] s = "circuit_vault" -> c
           [] s = "mnt_staking" -> m] :
        i \in InitLeveragedReads, c \in CircuitBaseReads, m \in MntStakingReads}

\* strategy_apys[strategy_name] = await get_strategy_apy(strategy_name), on
\* given outcomes of the feeds
StrategyApysOf(f) ==
    [s \in Strategies |->
        CASE s = "init_looping" -> INITLoopingGetCurrentApy(f[s])
          [] s = "circuit_vault" -> CircuitProtocolGetCurrentApy(f[s])
          [] s = "mnt_staking" -> MNTStakingGetCurrentApy(f[s])]

\* one read of every strategy: all the mappings name -> apy the reads may give
ApyReads == {f \in [Strategies -> UNION {get_strategy_apy(s) : s \in Strategies}] :
                \A s \in Strategies : f[s] \in get_strategy_apy(s)}

(***************************************************************************)
(* IntegratedMantleVaultAgent._calculate_integrated_allocation             *)
(***************************************************************************)
reserve_ratio == R(15, 100)
MIN_REALLOCATION_THRESHOLD == R(5, 10)
ExpiryWindow == 3600
HighActivity == 10
LowActivity == 3

ReasonReserves == "Insufficient reserves for policy coverage"
ReasonApySpread == "APY spread detected"
ReasonExpiring == "policies expiring soon"

\* faulty variant: the buffer taken from MantleConfig.SAFETY_BUFFER (0.1)
SafetyBufferFromConfig(required_reserves) == RMul(required_reserves, R(1, 10))
SafetyBuffer(required_reserves) == RMul(required_reserves, R(2, 10))

\* faulty variant: the reserves needed are not taken off the funds
DeployableFundsWhole(total_funds, total_reserves_needed) == total_funds
DeployableFunds(total_funds, total_reserves_needed) ==
    RMax(RZero, RSub(total_funds, total_reserves_needed))

CurrentReserveRatio(total_reserves_needed, total_funds) ==
    IF RGt(total_funds, RZero) THEN RDiv(total_reserves_needed, total_funds) ELSE RZero

ApySpread(strategy_apys) ==
    LET vals == {strategy_apys[s] : s \in Strategies}
    IN  RSub(RMaxOf(vals), RMinOf(vals))

\* p.time_to_expiry and p.time_to_expiry < 3600
ExpiringSoon(p) ==
    LET t == time_to_expiry(p)
    IN  Truthy(t) /\ t[1] < ExpiryWindow

UpcomingExpirations(active_policies) == SelectSeq(active_policies, ExpiringSoon)

Reasons(current_reserve_ratio, strategy_apys, active_policies) ==
    (IF RLt(current_reserve_ratio, reserve_ratio) THEN <<ReasonReserves>> ELSE <<>>)
    \o (IF RGt(ApySpread(strategy_apys), MIN_REALLOCATION_THRESHOLD)
        THEN <<ReasonApySpread>> ELSE <<>>)
    \o (IF UpcomingExpirations(active_policies) # <<>> THEN <<ReasonExpiring>> ELSE <<>>)

ShouldRebalance(current_reserve_ratio, strategy_apys, active_policies) ==
    \/ RLt(current_reserve_ratio, reserve_ratio)
    \/ RGt(ApySpread(strategy_apys), MIN_REALLOCATION_THRESHOLD)
    \/ UpcomingExpirations(active_policies) # <<>>

\* faulty variant: the activity thresholds taken inclusively
RiskMultiplierInclusive(active_count) ==
    IF active_count >= HighActivity THEN R(8, 10)
    ELSE IF active_count <= LowActivity THEN R(12, 10)
    ELSE RInt(1)
RiskMultiplier(active_count) ==
    IF active_count > HighActivity THEN R(8, 10)
    ELSE IF active_count < LowActivity THEN R(12, 10)
    ELSE RInt(1)

BaseAllocation(risk_multiplier) ==
    [s \in Strategies |->
        CASE s = "init_looping" -> RMul(R(45, 100), risk_multiplier)
          [] s = "circuit_vault" -> R(35, 100)
          [] s = "mnt_staking" -> R(20, 100)]

SumOver(f) == RSumSeq([i \in 1..Len(StrategyNames) |-> f[StrategyNames[i]]])

\* faulty variant: the base weights turned into percentages without dividing by their sum
NormalizeNoSum(base_allocation) ==
    [s \in Strategies |-> RMul(base_allocation[s], RInt(100))]
Normalize(base_allocation) ==
    LET total_allocation == SumOver(base_allocation)
    IN  [s \in Strategies |-> RMul(RDiv(base_allocation[s], total_allocation), RInt(100))]

\* faulty variant: the allocation computed whether or not anything is deployable
OptimalAllocationAlways(deployable_funds, active_count) ==
    Normalize(BaseAllocation(RiskMultiplier(active_count)))
OptimalAllocation(deployable_funds, active_count) ==
    IF RGt(deployable_funds, RZero)
    THEN Normalize(BaseAllocation(RiskMultiplier(active_count)))
    ELSE [s \in Strategies |-> RZero]

\* faulty variant: the allocation weighted by the APYs read
CalculateIntegratedAllocationByApy(snap, strategy_apys) ==
    LET total_funds == snap.available_liquidity
        required_reserves == snap.total_reserves_required
        safety_buffer == SafetyBuffer(required_reserves)
        total_reserves_needed == RAdd(required_reserves, safety_buffer)
        deployable_funds == DeployableFunds(total_funds, total_reserves_needed)
        current_reserve_ratio == CurrentReserveRatio(total_reserves_needed, total_funds)
    IN  [should_rebalance |->
             ShouldRebalance(current_reserve_ratio, strategy_apys, snap.active_policies),
         reasons |-> Reasons(current_reserve_ratio, strategy_apys, snap.active_policies),
         total_funds |-> total_funds,
         required_reserves |-> required_reserves,
         safety_buffer |-> safety_buffer,
         deployable_funds |-> deployable_funds,
         current_reserve_ratio |-> current_reserve_ratio,
         strategy_apys |-> strategy_apys,
         optimal_allocation |->
             IF RGt(deployable_funds, RZero)
             THEN Normalize(strategy_apys)
             ELSE [s \in Strategies |-> RZero],
         upcoming_expirations |-> Len(UpcomingExpirations(snap.active_policies))]

CalculateIntegratedAllocation(snap, strategy_apys) ==
    LET total_funds == snap.available_liquidity
        required_reserves == snap.total_reserves_required
        safety_buffer == SafetyBuffer(required_reserves)
        total_reserves_needed == RAdd(required_reserves, safety_buffer)
        deployable_funds == DeployableFunds(total_funds, total_reserves_needed)
        current_reserve_ratio == CurrentReserveRatio(total_reserves_needed, total_funds)
    IN  [should_rebalance |->
             ShouldRebalance(current_reserve_ratio, strategy_apys, snap.active_policies),
         reasons |-> Reasons(current_reserve_ratio, strategy_apys, snap.active_policies),
         total_funds |-> total_funds,
         required_reserves |-> required_reserves,
         safety_buffer |-> safety_buffer,
         deployable_funds |-> deployable_funds,
         current_reserve_ratio |-> current_reserve_ratio,
         strategy_apys |-> strategy_apys,
         optimal_allocation |->
             OptimalAllocation(deployable_funds, Len(snap.active_policies)),
         upcoming_expirations |-> Len(UpcomingExpirations(snap.active_policies))]

NoApys == [s \in Strategies |-> RZero]
NoPlan ==
    [should_rebalance |-> FALSE, reasons |-> <<>>, total_funds |-> RZero,
     required_reserves |-> RZero, safety_buffer |-> RZero, deployable_funds |-> RZero,
     current_reserve_ratio |-> RZero, strategy_apys |-> NoApys,
     optimal_allocation |-> NoApys, upcoming_expirations |-> 0 - 1]

(***************************************************************************)
(* Inputs of the executor model: the ProtocolSnapshot values handed to     *)
(* _calculate_integrated_allocation and the balances the chain reports.    *)
(* get_protocol_snapshot as written returns active_policies = [] only (see *)
(* SpecSnapshot below), so planner and executor are exercised on the       *)
(* ProtocolSnapshot values of the data model: an active list made of a few *)
(* varied policies followed by identical filler policies, with             *)
(* total_reserves_required the sum of their required reserves.             *)
(***************************************************************************)
InputPolicies ==
    {Policy("Active", RInt(20000), None),
     Policy("Active", RInt(5000), Some(Now - 100)),
     Policy("Active", RInt(5000), Some(Now + 1800)),
     Policy("Active", RInt(5000), Some(Now + ExpiryWindow)),
     Policy("Settled", RInt(20000), Some(Now + 1800))}

FillerPolicy == Policy("Active", RInt(1000), Some(Now + 7200))
FillCounts == {0, 2, 10, 11}

LiquidityValues == {RInt(0), RInt(24000), RInt(100000)}
\* liquidity figures no balance read can deliver
NegativeLiquidityValues == {RInt(0 - 1000)}
BalanceValues == {RInt(19000), RInt(24000), RInt(100000)}

VariedHeads == UNION {[1..k -> InputPolicies] : k \in 0..MaxVaried}

InputSnapshot(head, fill, liquidity) ==
    LET active == head \o [i \in 1..fill |-> FillerPolicy]
    IN  ProtocolSnapshot(Len(active), active, <<>>, SumRequiredReserve(active),
                         liquidity, <<>>)

InputSnapshots ==
    {InputSnapshot(h, f, l) : h \in VariedHeads, f \in FillCounts, l \in LiquidityValues}

\* the snapshots above and those with a negative available_liquidity
UncheckedSnapshots ==
    InputSnapshots \cup
    {InputSnapshot(h, f, l) :
        h \in VariedHeads, f \in FillCounts, l \in NegativeLiquidityValues}

(***************************************************************************)
(* State                                                                   *)
(***************************************************************************)
VARIABLES
    pc,                   \* position of the cycle
    snapshot,             \* protocol_snapshot of the cycle
    plan,                 \* allocation_strategy of the cycle
    current_balance,      \* the balance get_balance returned to this execution
    shortfall,            \* _ensure_adequate_reserves: shortfall
    remaining_shortfall,  \* _ensure_adequate_reserves: remaining_shortfall
    strategies_by_apy,    \* _ensure_adequate_reserves: sorted (name, apy) pairs
    widx,                 \* position of the withdrawal loop in strategies_by_apy
    didx,                 \* position of the deployment loop in optimal_allocation
    withdraw_calls,       \* withdraw_from_strategy calls of this execution
    deposit_calls,        \* deploy_to_strategy calls of this execution
    last_rebalance,       \* vault_state.last_rebalance
    error,                \* an exception was caught and logged in this execution
    rebalance_log,        \* lines logged by _execute_integrated_rebalance in this cycle
    last_rebalance_writes,\* assignments to vault_state.last_rebalance in this cycle
    sleep_seconds,        \* argument of the asyncio.sleep that ends the cycle
    running,              \* MantleVaultAgent.running
    stop_called,          \* stop_monitoring has been called
    tasks,                \* execute_rebalance_task background tasks of the server
    agent_graph,          \* the invocation of MantleVaultAgent.agent_graph in flight
    manager,              \* the server's ConnectionManager and its broadcast in flight
    api_manager           \* the server's MantleAPIManager: its cache, the clock, its call

vars == <<pc, snapshot, plan, current_balance, shortfall, remaining_shortfall,
          strategies_by_apy, widx, didx, withdraw_calls, deposit_calls,
          last_rebalance, error, rebalance_log, last_rebalance_writes,
          sleep_seconds, running, stop_called, tasks,
          agent_graph, manager, api_manager>>

ensure_locals == <<shortfall, remaining_shortfall, strategies_by_apy, widx>>

\* the workflow graph, the websocket connections and the APY cache
server_vars == <<agent_graph, manager, api_manager>>

\* what a step of the monitoring cycle does not touch
outer_vars == <<running, stop_called, tasks, server_vars>>

NoBalance == RInt(0 - 1)

\* no ainvoke of the workflow graph is in flight
NoInvocation == [node |-> "none", rebalance_signals |-> <<>>, steps |-> 0]

\* ConnectionManager.__init__: no connection, and no broadcast in flight
NoConnections ==
    [active_connections |-> <<>>, broadcast |-> "none", position |-> 0,
     at_start |-> <<>>, stale |-> {}, attempted |-> {}]

\* MantleAPIManager.__init__: self.cache = {}, at time 0, no call in flight
EmptyCache ==
    [cache |-> <<>>, time |-> 0, calling |-> FALSE, called_at |-> 0,
     returned |-> <<>>]

\* self.config.DELTA_T_HOURS
DELTA_T_HOURS == 6
\* await asyncio.sleep(60) in the except block of enhanced_monitoring_loop.
\* Every call of the try block catches its own exceptions
\* (get_protocol_snapshot, get_current_apy, _execute_integrated_rebalance),
\* so no step of the cycle leads to that block.
BackoffSeconds == 60

\* the logger lines of _execute_integrated_rebalance and _ensure_adequate_reserves
LogExecuting == "Executing integrated rebalance"
LogShortfallDetected == "Reserve shortfall detected"
LogWithdrew == "Withdrew"
LogDeployed == "Deployed"
LogDeployFailed == "Failed to deploy"
LogCompleted == "Integrated rebalance completed successfully"
LogRebalanceError == "Error executing integrated rebalance"
LogLine(msg) == [msg |-> msg, amount |-> None]
LogAmount(msg, amount) == [msg |-> msg, amount |-> Some(amount)]

(***************************************************************************)
(* _ensure_adequate_reserves: helpers                                      *)
(***************************************************************************)
\* insert x into the sequence s sorted by apy, after every element not above it
RECURSIVE InsertByApy(_, _)
InsertByApy(x, s) ==
    IF s = <<>> THEN <<x>>
    ELSE IF RLt(x.apy, Head(s).apy) THEN <<x>> \o s
    ELSE <<Head(s)>> \o InsertByApy(x, Tail(s))

\* sorted(pairs, key=lambda x: x[1]): ascending and stable
RECURSIVE SortedByApy(_)
SortedByApy(pairs) ==
    IF pairs = <<>> THEN <<>>
    ELSE InsertByApy(pairs[Len(pairs)], SortedByApy(SubSeq(pairs, 1, Len(pairs) - 1)))

\* faulty variant: the strategies taken in their listed order, unsorted
StrategiesUnsorted(apys) ==
    [i \in 1..Len(StrategyNames) |->
        [name |-> StrategyNames[i], apy |-> apys[StrategyNames[i]]]]
StrategiesByApy(apys) ==
    SortedByApy([i \in 1..Len(StrategyNames) |->
                    [name |-> StrategyNames[i], apy |-> apys[StrategyNames[i]]]])

\* faulty variant: a withdrawal is not capped at half the shortfall
WithdrawAmountUncapped(remaining, short) == remaining
\* min(remaining_shortfall, shortfall * 0.5)
WithdrawAmount(remaining, short) == RMin(remaining, RMul(short, R(5, 10)))

\* (strategy['deployable_funds'] * allocation_pct) / 100
DeployAmount(deployable_funds, allocation_pct) ==
    RDiv(RMul(deployable_funds, allocation_pct), RInt(100))

RequiredAmount(p) == RAdd(p.required_reserves, p.safety_buffer)

\* faulty variant: the whole required amount taken as the shortfall
ShortfallWholeTarget(required_amount, balance) == required_amount
\* shortfall = required_amount - current_balance
Shortfall(required_amount, balance) == RSub(required_amount, balance)

(***************************************************************************)
(* One cycle: snapshot, _calculate_integrated_allocation, and, when the    *)
(* plan asks for it, _execute_integrated_rebalance.                        *)
(***************************************************************************)
Init ==
    /\ pc = "fetch"
    /\ snapshot = NoSnapshot
    /\ plan = NoPlan
    /\ current_balance = NoBalance
    /\ shortfall = RZero
    /\ remaining_shortfall = RZero
    /\ strategies_by_apy = <<>>
    /\ widx = 0
    /\ didx = 0
    /\ withdraw_calls = <<>>
    /\ deposit_calls = <<>>
    /\ last_rebalance = 0
    /\ error = FALSE
    /\ rebalance_log = <<>>
    /\ last_rebalance_writes = 0
    /\ sleep_seconds = 0
    /\ running = FALSE
    /\ stop_called = FALSE
    /\ tasks = <<>>
    /\ agent_graph = NoInvocation
    /\ manager = NoConnections
    /\ api_manager = EmptyCache

\* the cycle receives its protocol_snapshot
ReceiveSnapshot ==
    /\ pc = "fetch"
    /\ \E s \in InputSnapshots : snapshot' = s
    /\ pc' = "calculate"
    /\ UNCHANGED <<rebalance_log, last_rebalance_writes, sleep_seconds>>
    /\ UNCHANGED outer_vars
    /\ UNCHANGED <<plan, current_balance, ensure_locals, didx, withdraw_calls, deposit_calls,
                   last_rebalance, error>>

\* allocation_strategy = await self._calculate_integrated_allocation(protocol_snapshot)
CalculateAllocation ==
    /\ pc = "calculate"
    /\ \E apys \in ApyReads : plan' = CalculateIntegratedAllocation(snapshot, apys)
    /\ pc' = "decide"
    /\ UNCHANGED <<rebalance_log, last_rebalance_writes, sleep_seconds>>
    /\ UNCHANGED outer_vars
    /\ UNCHANGED <<snapshot, current_balance, ensure_locals, didx, withdraw_calls, deposit_calls,
                   last_rebalance, error>>

\* if allocation_strategy['should_rebalance'] is false: nothing is executed
SkipRebalance ==
    /\ pc = "decide"
    /\ ~plan.should_rebalance
    /\ pc' = "sleep"
    /\ sleep_seconds' = DELTA_T_HOURS * 3600
    /\ UNCHANGED <<rebalance_log, last_rebalance_writes>>
    /\ UNCHANGED outer_vars
    /\ UNCHANGED <<snapshot, plan, current_balance, ensure_locals, didx, withdraw_calls,
                   deposit_calls, last_rebalance, error>>

\* faulty variant: the executor is run whatever should_rebalance says
ExecuteIntegratedRebalanceAlways ==
    /\ pc = "decide"
    /\ pc' = "ensure"
    /\ rebalance_log' = Append(rebalance_log, LogLine(LogExecuting))
    /\ UNCHANGED <<last_rebalance_writes, sleep_seconds>>
    /\ UNCHANGED outer_vars
    /\ UNCHANGED <<snapshot, plan, current_balance, ensure_locals, didx, withdraw_calls,
                   deposit_calls, last_rebalance, error>>
\* await self._execute_integrated_rebalance(allocation_strategy)
ExecuteIntegratedRebalance ==
    /\ pc = "decide"
    /\ plan.should_rebalance
    /\ pc' = "ensure"
    /\ rebalance_log' = Append(rebalance_log, LogLine(LogExecuting))
    /\ UNCHANGED <<last_rebalance_writes, sleep_seconds>>
    /\ UNCHANGED outer_vars
    /\ UNCHANGED <<snapshot, plan, current_balance, ensure_locals, didx, withdraw_calls,
                   deposit_calls, last_rebalance, error>>

\* get_balance raises (the chain read fails): caught by the except of
\* _execute_integrated_rebalance, which logs and returns
EnsureBalanceError ==
    /\ pc = "ensure"
    /\ error' = TRUE
    /\ pc' = "sleep"
    /\ rebalance_log' = Append(rebalance_log, LogLine(LogRebalanceError))
    /\ sleep_seconds' = DELTA_T_HOURS * 3600
    /\ UNCHANGED last_rebalance_writes
    /\ UNCHANGED outer_vars
    /\ UNCHANGED <<snapshot, plan, current_balance, ensure_locals, didx, withdraw_calls,
                   deposit_calls, last_rebalance>>

\* current_balance >= required_amount: _ensure_adequate_reserves returns at once
EnsureAdequate ==
    /\ pc = "ensure"
    /\ \E b \in BalanceValues :
          /\ ~RLt(b, RequiredAmount(plan))
          /\ current_balance' = b
    /\ pc' = "deploy"
    /\ didx' = 1
    /\ UNCHANGED <<rebalance_log, last_rebalance_writes, sleep_seconds>>
    /\ UNCHANGED outer_vars
    /\ UNCHANGED <<snapshot, plan, ensure_locals, withdraw_calls, deposit_calls,
                   last_rebalance, error>>

\* current_balance < required_amount: the shortfall and the withdrawal order
EnsureShortfall ==
    /\ pc = "ensure"
    /\ \E b \in BalanceValues, apys \in ApyReads :
          /\ RLt(b, RequiredAmount(plan))
          /\ current_balance' = b
          /\ shortfall' = Shortfall(RequiredAmount(plan), b)
          /\ strategies_by_apy' = StrategiesByApy(apys)
          /\ remaining_shortfall' = Shortfall(RequiredAmount(plan), b)
          /\ rebalance_log' = Append(rebalance_log,
                LogAmount(LogShortfallDetected, Shortfall(RequiredAmount(plan), b)))
    /\ widx' = 1
    /\ pc' = "withdraw"
    /\ UNCHANGED <<last_rebalance_writes, sleep_seconds>>
    /\ UNCHANGED outer_vars
    /\ UNCHANGED <<snapshot, plan, didx, withdraw_calls, deposit_calls,
                   last_rebalance, error>>

\* faulty variant: a failed withdrawal is taken off remaining_shortfall as well
WithdrawFromStrategyCountsFailure ==
    /\ pc = "withdraw"
    /\ widx <= Len(strategies_by_apy)
    /\ RGt(remaining_shortfall, RZero)
    /\ LET withdraw_amount == WithdrawAmount(remaining_shortfall, shortfall)
           strategy_name == strategies_by_apy[widx].name
       IN  \E success \in BOOLEAN :
              /\ withdraw_calls' = Append(withdraw_calls,
                    [name |-> strategy_name, amount |-> withdraw_amount,
                     success |-> success])
              /\ rebalance_log' =
                    IF success
                    THEN Append(rebalance_log, LogAmount(LogWithdrew, withdraw_amount))
                    ELSE rebalance_log
              /\ remaining_shortfall' = RSub(remaining_shortfall, withdraw_amount)
    /\ widx' = widx + 1
    /\ UNCHANGED <<last_rebalance_writes, sleep_seconds>>
    /\ UNCHANGED outer_vars
    /\ UNCHANGED <<pc, snapshot, plan, current_balance, shortfall, strategies_by_apy,
                   didx, deposit_calls, last_rebalance, error>>
\* one iteration of the withdrawal loop
WithdrawFromStrategy ==
    /\ pc = "withdraw"
    /\ widx <= Len(strategies_by_apy)
    /\ RGt(remaining_shortfall, RZero)
    /\ LET withdraw_amount == WithdrawAmount(remaining_shortfall, shortfall)
           strategy_name == strategies_by_apy[widx].name
       IN  \E success \in BOOLEAN :
              /\ withdraw_calls' = Append(withdraw_calls,
                    [name |-> strategy_name, amount |-> withdraw_amount,
                     success |-> success])
              /\ rebalance_log' =
                    IF success
                    THEN Append(rebalance_log, LogAmount(LogWithdrew, withdraw_amount))
                    ELSE rebalance_log
              /\ remaining_shortfall' =
                    IF success THEN RSub(remaining_shortfall, withdraw_amount)
                    ELSE remaining_shortfall
    /\ widx' = widx + 1
    /\ UNCHANGED <<last_rebalance_writes, sleep_seconds>>
    /\ UNCHANGED outer_vars
    /\ UNCHANGED <<pc, snapshot, plan, current_balance, shortfall, strategies_by_apy,
                   didx, deposit_calls, last_rebalance, error>>

\* the loop ends (break, or the strategies are exhausted) and the call returns
EnsureReturn ==
    /\ pc = "withdraw"
    /\ widx > Len(strategies_by_apy) \/ RLe(remaining_shortfall, RZero)
    /\ shortfall' = RZero
    /\ remaining_shortfall' = RZero
    /\ strategies_by_apy' = <<>>
    /\ widx' = 0
    /\ pc' = "deploy"
    /\ didx' = 1
    /\ UNCHANGED <<rebalance_log, last_rebalance_writes, sleep_seconds>>
    /\ UNCHANGED outer_vars
    /\ UNCHANGED <<snapshot, plan, current_balance, withdraw_calls, deposit_calls,
                   last_rebalance, error>>

\* faulty variant: the deposits are fixed shares of the balance read, whatever
\* the plan holds as deployable funds
DeployToStrategyOfBalance ==
    /\ pc = "deploy"
    /\ didx <= Len(StrategyNames)
    /\ LET strategy_name == StrategyNames[didx]
           amount == DeployAmount(current_balance, BaseAllocation(RInt(1))[strategy_name])
       IN  IF RGt(amount, RZero)
           THEN \E success \in BOOLEAN :
                  /\ deposit_calls' = Append(deposit_calls,
                        [name |-> strategy_name, amount |-> amount, success |-> success])
                  /\ rebalance_log' = Append(rebalance_log,
                        LogAmount(IF success THEN LogDeployed ELSE LogDeployFailed, amount))
           ELSE UNCHANGED <<deposit_calls, rebalance_log>>
    /\ didx' = didx + 1
    /\ UNCHANGED <<last_rebalance_writes, sleep_seconds>>
    /\ UNCHANGED outer_vars
    /\ UNCHANGED <<pc, snapshot, plan, current_balance, ensure_locals, withdraw_calls,
                   last_rebalance, error>>

\* faulty variant: deposits are issued while the withdrawal loop is still running
DeployToStrategyUnordered ==
    /\ pc \in {"withdraw", "deploy"}
    /\ RGt(plan.deployable_funds, RZero)
    /\ Len(deposit_calls) < Len(StrategyNames)
    /\ LET strategy_name == StrategyNames[Len(deposit_calls) + 1]
           allocation_pct == plan.optimal_allocation[strategy_name]
           amount == DeployAmount(plan.deployable_funds, allocation_pct)
       IN  \E success \in BOOLEAN :
              /\ deposit_calls' = Append(deposit_calls,
                    [name |-> strategy_name, amount |-> amount, success |-> success])
              /\ rebalance_log' = Append(rebalance_log,
                    LogAmount(IF success THEN LogDeployed ELSE LogDeployFailed, amount))
    /\ didx' = IF pc = "deploy" THEN didx + 1 ELSE didx
    /\ UNCHANGED <<last_rebalance_writes, sleep_seconds>>
    /\ UNCHANGED outer_vars
    /\ UNCHANGED <<pc, snapshot, plan, current_balance, ensure_locals, withdraw_calls,
                   last_rebalance, error>>
\* faulty variant: the deployment loop is left at the first failed deposit
DeployToStrategyStopOnFailure ==
    /\ pc = "deploy"
    /\ RGt(plan.deployable_funds, RZero)
    /\ didx <= Len(StrategyNames)
    /\ LET strategy_name == StrategyNames[didx]
           allocation_pct == plan.optimal_allocation[strategy_name]
           amount == DeployAmount(plan.deployable_funds, allocation_pct)
       IN  \E success \in BOOLEAN :
              /\ deposit_calls' = Append(deposit_calls,
                    [name |-> strategy_name, amount |-> amount, success |-> success])
              /\ rebalance_log' = Append(rebalance_log,
                    LogAmount(IF success THEN LogDeployed ELSE LogDeployFailed, amount))
              /\ didx' = IF success THEN didx + 1 ELSE Len(StrategyNames) + 1
    /\ UNCHANGED <<last_rebalance_writes, sleep_seconds>>
    /\ UNCHANGED outer_vars
    /\ UNCHANGED <<pc, snapshot, plan, current_balance, ensure_locals, withdraw_calls,
                   last_rebalance, error>>
\* one iteration of the deployment loop over optimal_allocation.items()
DeployToStrategy ==
    /\ pc = "deploy"
    /\ RGt(plan.deployable_funds, RZero)
    /\ didx <= Len(StrategyNames)
    /\ LET strategy_name == StrategyNames[didx]
           allocation_pct == plan.optimal_allocation[strategy_name]
           amount == DeployAmount(plan.deployable_funds, allocation_pct)
       IN  IF RGt(allocation_pct, RZero)
           THEN \E success \in BOOLEAN :
                  /\ deposit_calls' = Append(deposit_calls,
                        [name |-> strategy_name, amount |-> amount, success |-> success])
                  /\ rebalance_log' = Append(rebalance_log,
                        LogAmount(IF success THEN LogDeployed ELSE LogDeployFailed, amount))
           ELSE UNCHANGED <<deposit_calls, rebalance_log>>
    /\ didx' = didx + 1
    /\ UNCHANGED <<last_rebalance_writes, sleep_seconds>>
    /\ UNCHANGED outer_vars
    /\ UNCHANGED <<pc, snapshot, plan, current_balance, ensure_locals, withdraw_calls,
                   last_rebalance, error>>

\* self.vault_state.last_rebalance = datetime.now()
FinishRebalance ==
    /\ pc = "deploy"
    /\ RLe(plan.deployable_funds, RZero) \/ didx > Len(StrategyNames)
    /\ last_rebalance' = Now
    /\ pc' = "sleep"
    /\ last_rebalance_writes' = last_rebalance_writes + 1
    /\ rebalance_log' = Append(rebalance_log, LogLine(LogCompleted))
    /\ sleep_seconds' = DELTA_T_HOURS * 3600
    /\ UNCHANGED outer_vars
    /\ UNCHANGED <<snapshot, plan, current_balance, ensure_locals, didx, withdraw_calls,
                   deposit_calls, error>>

\* the cycle is over; the next one starts with fresh locals
Sleep ==
    /\ pc = "sleep"
    /\ pc' = "fetch"
    /\ snapshot' = NoSnapshot
    /\ plan' = NoPlan
    /\ current_balance' = NoBalance
    /\ didx' = 0
    /\ withdraw_calls' = <<>>
    /\ deposit_calls' = <<>>
    /\ error' = FALSE
    /\ rebalance_log' = <<>>
    /\ last_rebalance_writes' = 0
    /\ sleep_seconds' = 0
    /\ UNCHANGED outer_vars
    /\ UNCHANGED <<ensure_locals, last_rebalance>>

Next ==
    \/ ReceiveSnapshot
    \/ CalculateAllocation
    \/ SkipRebalance
    \/ ExecuteIntegratedRebalance
    \/ EnsureBalanceError
    \/ EnsureAdequate
    \/ EnsureShortfall
    \/ WithdrawFromStrategy
    \/ EnsureReturn
    \/ DeployToStrategy
    \/ FinishRebalance
    \/ Sleep

Spec == Init /\ [][Next]_vars

\* the cycle receives a ProtocolSnapshot whose liquidity may be negative
ReceiveUncheckedSnapshot ==
    /\ pc = "fetch"
    /\ \E s \in UncheckedSnapshots : snapshot' = s
    /\ pc' = "calculate"
    /\ UNCHANGED <<rebalance_log, last_rebalance_writes, sleep_seconds>>
    /\ UNCHANGED outer_vars
    /\ UNCHANGED <<plan, current_balance, ensure_locals, didx, withdraw_calls, deposit_calls,
                   last_rebalance, error>>

NextUnchecked ==
    \/ ReceiveUncheckedSnapshot
    \/ CalculateAllocation
    \/ SkipRebalance
    \/ ExecuteIntegratedRebalance
    \/ EnsureBalanceError
    \/ EnsureAdequate
    \/ EnsureShortfall
    \/ WithdrawFromStrategy
    \/ EnsureReturn
    \/ DeployToStrategy
    \/ FinishRebalance
    \/ Sleep

SpecUnchecked == Init /\ [][NextUnchecked]_vars

(***************************************************************************)
(* FOMOInsuranceMonitor.get_protocol_snapshot against the chain            *)
(***************************************************************************)
\* getPolicy(policy_id): the raw payout (USDC units of 1e-6), expiry and state index
RawPolicy(payout, expiry, st) == [payout |-> payout, expiry |-> expiry, state |-> st]
RawPolicies ==
    {RawPolicy(5000000, 0, 0),
     RawPolicy(20000000, Now + 1800, 1),
     RawPolicy(20000000, Now + 7200, 1),
     RawPolicy(1500000, Now - 100, 2),
     RawPolicy(0, 0, 3)}
\* balanceOf(FOMO_INSURANCE) in USDC units of 1e-6
RawBalances == {0, 1500000, 24000000, 100000000}

StateNames == <<"Open", "Active", "Settled", "Cancelled">>

\* _get_policy_info: the PolicyInfo built from the raw policy data
PolicyInfoOf(raw) ==
    Policy(StateNames[raw.state + 1], R(raw.payout, 1000000),
           IF raw.expiry > 0 THEN Some(raw.expiry) ELSE None)

\* _get_policy_info per open id: None (the read failed) or the PolicyInfo;
\* the loop keeps the policies that are not None
RECURSIVE OpenPolicies(_)
OpenPolicies(reads) ==
    IF reads = <<>> THEN <<>>
    ELSE IF Head(reads) = None THEN OpenPolicies(Tail(reads))
    ELSE <<PolicyInfoOf(Head(reads)[1])>> \o OpenPolicies(Tail(reads))

\* _get_available_liquidity: balance_wei / 10**6, or 0.0 when the read fails
AvailableLiquidity(read) == IF read = None THEN RZero ELSE R(read[1], 1000000)

RECURSIVE SumPayout(_)
SumPayout(ps) ==
    IF ps = <<>> THEN RZero ELSE RAdd(Head(ps).payout_amount, SumPayout(Tail(ps)))

\* faulty variant: the reserves summed over the payouts of the policies that were fetched
SnapshotOfSumFetched(open_policies, available_liquidity) ==
    ProtocolSnapshot(Len(open_policies), <<>>, open_policies, SumPayout(open_policies),
                     available_liquidity, <<>>)
\* the try block of get_protocol_snapshot
SnapshotOf(open_policies, available_liquidity) ==
    LET active_policies == <<>>
        total_reserves_required == SumRequiredReserve(active_policies)
    IN  ProtocolSnapshot(Len(open_policies) + Len(active_policies), active_policies,
                         open_policies, total_reserves_required, available_liquidity, <<>>)

\* the except block of get_protocol_snapshot
FallbackSnapshot == ProtocolSnapshot(0, <<>>, <<>>, RZero, RZero, <<>>)

PolicyReads == {None} \cup {Some(r) : r \in RawPolicies}
BalanceReads == {None} \cup {Some(b) : b \in RawBalances}

GetProtocolSnapshot ==
    /\ pc = "fetch"
    /\ \E k \in 0..MaxOpen :
          \E reads \in [1..k -> PolicyReads], balance \in BalanceReads :
             snapshot' = SnapshotOf(OpenPolicies(reads), AvailableLiquidity(balance))
    /\ error' = FALSE
    /\ UNCHANGED <<rebalance_log, last_rebalance_writes, sleep_seconds>>
    /\ UNCHANGED outer_vars
    /\ UNCHANGED <<pc, plan, current_balance, ensure_locals, didx, withdraw_calls,
                   deposit_calls, last_rebalance>>

GetProtocolSnapshotError ==
    /\ pc = "fetch"
    /\ snapshot' = FallbackSnapshot
    /\ error' = TRUE
    /\ UNCHANGED <<rebalance_log, last_rebalance_writes, sleep_seconds>>
    /\ UNCHANGED outer_vars
    /\ UNCHANGED <<pc, plan, current_balance, ensure_locals, didx, withdraw_calls,
                   deposit_calls, last_rebalance>>

SnapshotNext == GetProtocolSnapshot \/ GetProtocolSnapshotError

SpecSnapshot == Init /\ [][SnapshotNext]_vars

(***************************************************************************)
(* enhanced_monitoring_loop as run_continuous and /api/agent/start start   *)
(* it: one loop task of one agent, its snapshots read from the chain by    *)
(* get_protocol_snapshot. Such a snapshot has no active policy, so the     *)
(* reserve target is 0 and no balance read is below it.                    *)
(***************************************************************************)
InitLoop ==
    /\ pc = "idle"
    /\ snapshot = NoSnapshot
    /\ plan = NoPlan
    /\ current_balance = NoBalance
    /\ shortfall = RZero
    /\ remaining_shortfall = RZero
    /\ strategies_by_apy = <<>>
    /\ widx = 0
    /\ didx = 0
    /\ withdraw_calls = <<>>
    /\ deposit_calls = <<>>
    /\ last_rebalance = 0
    /\ error = FALSE
    /\ rebalance_log = <<>>
    /\ last_rebalance_writes = 0
    /\ sleep_seconds = 0
    /\ running = FALSE
    /\ stop_called = FALSE
    /\ tasks = <<>>
    /\ agent_graph = NoInvocation
    /\ manager = NoConnections
    /\ api_manager = EmptyCache

cycle_vars == <<snapshot, plan, current_balance, ensure_locals, didx, withdraw_calls,
                deposit_calls, last_rebalance, error, rebalance_log,
                last_rebalance_writes, sleep_seconds>>

\* run_continuous: await agent.enhanced_monitoring_loop() on a new agent
RunContinuous ==
    /\ pc = "idle"
    /\ pc' = "test"
    /\ UNCHANGED <<cycle_vars, server_vars, running, stop_called, tasks>>

\* POST /api/agent/start: nothing if agent.running, else
\* asyncio.create_task(agent.enhanced_monitoring_loop())
StartAgent ==
    /\ pc \in {"idle", "returned"}
    /\ ~running
    /\ pc' = "test"
    /\ UNCHANGED <<cycle_vars, server_vars, running, stop_called, tasks>>

\* MantleVaultAgent.start_monitoring, called by a client of the class:
\* self.running = True
StartMonitoring ==
    /\ ~running
    /\ running' = TRUE
    /\ UNCHANGED <<pc, cycle_vars, server_vars, stop_called, tasks>>

\* faulty variant: the stop cancels the cycle in flight
StopMonitoringCancelsCycle ==
    /\ running \/ ~stop_called
    /\ running' = FALSE
    /\ stop_called' = TRUE
    /\ pc' = IF pc \in {"idle", "test", "returned"} THEN pc ELSE "returned"
    /\ UNCHANGED <<cycle_vars, server_vars, tasks>>

\* MantleVaultAgent.stop_monitoring (POST /api/agent/stop, server shutdown)
StopMonitoring ==
    /\ running \/ ~stop_called
    /\ running' = FALSE
    /\ stop_called' = TRUE
    /\ UNCHANGED <<pc, cycle_vars, server_vars, tasks>>

\* while self.running: the next cycle, or the loop function returns
LoopTest ==
    /\ pc = "test"
    /\ pc' = IF running THEN "fetch" ELSE "returned"
    /\ UNCHANGED <<cycle_vars, server_vars, running, stop_called, tasks>>

\* protocol_snapshot = await self.fomo_monitor.get_protocol_snapshot()
LoopGetSnapshot ==
    /\ pc = "fetch"
    /\ \E k \in 0..MaxOpen :
          \E reads \in [1..k -> PolicyReads], balance \in BalanceReads :
             snapshot' = SnapshotOf(OpenPolicies(reads), AvailableLiquidity(balance))
    /\ pc' = "calculate"
    /\ UNCHANGED <<plan, current_balance, ensure_locals, didx, withdraw_calls,
                   deposit_calls, last_rebalance, error, rebalance_log,
                   last_rebalance_writes, sleep_seconds>>
    /\ UNCHANGED outer_vars

\* the same call when get_protocol_snapshot takes its except block
LoopGetSnapshotError ==
    /\ pc = "fetch"
    /\ snapshot' = FallbackSnapshot
    /\ error' = TRUE
    /\ pc' = "calculate"
    /\ UNCHANGED <<plan, current_balance, ensure_locals, didx, withdraw_calls,
                   deposit_calls, last_rebalance, rebalance_log,
                   last_rebalance_writes, sleep_seconds>>
    /\ UNCHANGED outer_vars

\* asyncio.sleep returns and the loop goes back to its while test
LoopSleep ==
    /\ pc = "sleep"
    /\ pc' = "test"
    /\ snapshot' = NoSnapshot
    /\ plan' = NoPlan
    /\ current_balance' = NoBalance
    /\ didx' = 0
    /\ withdraw_calls' = <<>>
    /\ deposit_calls' = <<>>
    /\ error' = FALSE
    /\ rebalance_log' = <<>>
    /\ last_rebalance_writes' = 0
    /\ sleep_seconds' = 0
    /\ UNCHANGED outer_vars
    /\ UNCHANGED <<ensure_locals, last_rebalance>>

LoopNext ==
    \/ RunContinuous
    \/ StartAgent
    \/ StartMonitoring
    \/ StopMonitoring
    \/ LoopTest
    \/ LoopGetSnapshot
    \/ LoopGetSnapshotError
    \/ CalculateAllocation
    \/ ExecuteIntegratedRebalance
    \/ EnsureBalanceError
    \/ EnsureAdequate
    \/ DeployToStrategy
    \/ FinishRebalance
    \/ LoopSleep

SpecLoop == InitLoop /\ [][LoopNext]_vars

(***************************************************************************)
(* POST /api/vault/rebalance: each request adds a background task          *)
(* execute_rebalance_task -> manual_rebalance -> execute_rebalance. The    *)
(* tasks run on one event loop and are suspended while a deposit is        *)
(* awaited. A client may also call the execute_rebalance tool with an      *)
(* allocation map of its own, or post one to /api/vault/allocate.          *)
(***************************************************************************)
\* manual_rebalance: optimal_allocations
ManualAllocations ==
    [init_looping |-> RInt(45), circuit_vault |-> RInt(35), mnt_staking |-> RInt(20)]

\* get_balance("USDC", FOMO_INSURANCE) as execute_rebalance reads it
ManualBalanceValues == {RInt(0), RInt(24000)}

\* the allocation maps a caller of the execute_rebalance tool or of
\* POST /api/vault/allocate supplies: sums 100, 100.1, 100.2 and 90
AllocationInputs ==
    {ManualAllocations,
     [init_looping |-> RInt(45), circuit_vault |-> RInt(35), mnt_staking |-> R(201, 10)],
     [init_looping |-> RInt(45), circuit_vault |-> RInt(35), mnt_staking |-> R(202, 10)],
     [init_looping |-> RInt(45), circuit_vault |-> RInt(35), mnt_staking |-> RInt(10)]}

\* total_allocation = sum(target_allocations.values())
TotalAllocation(target_allocations) ==
    RSumSeq([i \in 1..Len(StrategyNames) |-> target_allocations[StrategyNames[i]]])

\* faulty variant: every allocation map is taken
AllocationSumsTo100Unchecked(target_allocations) == TRUE

\* not (abs(total_allocation - 100) > 0.1)
AllocationSumsTo100(target_allocations) ==
    LET diff == RSub(TotalAllocation(target_allocations), RInt(100))
    IN  ~RGt(RMax(diff, RNeg(diff)), R(1, 10))

\* target_amount = (current_balance * allocation_pct) / 100
TargetAmountOf(balance, allocation_pct) ==
    RDiv(RMul(balance, allocation_pct), RInt(100))
TargetAmount(balance, strategy_name) ==
    TargetAmountOf(balance, ManualAllocations[strategy_name])

Task(position, balance, idx, awaiting, target_allocations) ==
    [pc |-> position, current_balance |-> balance, idx |-> idx, awaiting |-> awaiting,
     target_allocations |-> target_allocations]
NewTask(target_allocations) == Task("start", NoBalance, 0, FALSE, target_allocations)
DoneTask(target_allocations) == Task("done", NoBalance, 0, FALSE, target_allocations)
\* return "Error: Target allocations must sum to 100%"
RejectedTask(target_allocations) ==
    Task("rejected", NoBalance, 0, FALSE, target_allocations)

\* rebalance_vault: background_tasks.add_task(execute_rebalance_task, ...)
RebalanceVault ==
    /\ Len(tasks) < MaxTasks
    /\ tasks' = Append(tasks, NewTask(ManualAllocations))
    /\ UNCHANGED <<pc, cycle_vars, server_vars, running, stop_called>>

\* execute_rebalance.ainvoke({"target_allocations": ...}) by a client of the
\* tool, with an allocation map of its own
ExecuteRebalanceTool ==
    /\ Len(tasks) < MaxTasks
    /\ \E a \in AllocationInputs : tasks' = Append(tasks, NewTask(a))
    /\ UNCHANGED <<pc, cycle_vars, server_vars, running, stop_called>>

\* POST /api/vault/allocate: the sum is validated; the HTTPException(400) of
\* a bad sum is caught by the handler's own except and raised again as a 500;
\* a good map is answered with "Custom allocation set" and broadcast, nothing
\* is executed
SetCustomAllocation ==
    /\ Len(tasks) < MaxTasks
    /\ \E a \in AllocationInputs :
          tasks' = Append(tasks,
                          IF AllocationSumsTo100(a)
                          THEN Task("allocation_set", NoBalance, 0, FALSE, a)
                          ELSE Task("http_500", NoBalance, 0, FALSE, a))
    /\ UNCHANGED <<pc, cycle_vars, server_vars, running, stop_called>>

\* execute_rebalance: the balance read, then the check of the allocation sum;
\* a balance read that raises ends the tool call
TaskReadBalance(i) ==
    /\ tasks[i].pc = "start"
    /\ \/ \E b \in ManualBalanceValues :
             tasks' = [tasks EXCEPT ![i] =
                IF AllocationSumsTo100(@.target_allocations)
                THEN Task("deploy", b, 1, FALSE, @.target_allocations)
                ELSE RejectedTask(@.target_allocations)]
       \/ tasks' = [tasks EXCEPT ![i] = DoneTask(@.target_allocations)]
    /\ UNCHANGED <<pc, cycle_vars, server_vars, running, stop_called>>

\* the loop over target_allocations.items(): a strategy whose target amount
\* is 0 is passed over, else deploy_to_strategy is called and awaited
TaskDeployCall(i) ==
    /\ tasks[i].pc = "deploy"
    /\ ~tasks[i].awaiting
    /\ tasks[i].idx <= Len(StrategyNames)
    /\ tasks' = [tasks EXCEPT ![i] =
          IF RGt(TargetAmountOf(@.current_balance,
                                @.target_allocations[StrategyNames[@.idx]]), RZero)
          THEN [@ EXCEPT !.awaiting = TRUE]
          ELSE [@ EXCEPT !.idx = @ + 1]]
    /\ UNCHANGED <<pc, cycle_vars, server_vars, running, stop_called>>

\* the awaited deposit returns its result
TaskDeployReturn(i) ==
    /\ tasks[i].pc = "deploy"
    /\ tasks[i].awaiting
    /\ tasks' = [tasks EXCEPT ![i] = [@ EXCEPT !.awaiting = FALSE, !.idx = @ + 1]]
    /\ UNCHANGED <<pc, cycle_vars, server_vars, running, stop_called>>

\* the summary is returned and the task ends
TaskFinish(i) ==
    /\ tasks[i].pc = "deploy"
    /\ tasks[i].idx > Len(StrategyNames)
    /\ tasks' = [tasks EXCEPT ![i] = DoneTask(@.target_allocations)]
    /\ UNCHANGED <<pc, cycle_vars, server_vars, running, stop_called>>

RequestsNext ==
    \/ RebalanceVault
    \/ ExecuteRebalanceTool
    \/ SetCustomAllocation
    \/ \E i \in 1..Len(tasks) : TaskReadBalance(i)
    \/ \E i \in 1..Len(tasks) : TaskDeployCall(i)
    \/ \E i \in 1..Len(tasks) : TaskDeployReturn(i)
    \/ \E i \in 1..Len(tasks) : TaskFinish(i)

SpecRequests == InitLoop /\ [][RequestsNext]_vars

(***************************************************************************)
(* handle_policy_event: the handlers of the FOMO Insurance policy events.  *)
(* A handler takes its own snapshot and plan and, when its condition       *)
(* holds, runs _execute_integrated_rebalance; the steps of the executor    *)
(* are those of the cycle.                                                 *)
(***************************************************************************)
\* the event types handle_policy_event knows, and one it does not
EventTypes == {"PolicyCreated", "PolicyPurchased", "PolicySettled", "PolicyCancelled"}

\* deployable_funds > 1000 of _on_policy_settled
SettledMinimumDeployable == RInt(1000)

\* handle_policy_event: the dispatch on event_type
HandlePolicyEvent ==
    /\ pc = "idle"
    /\ \E event_type \in EventTypes :
          pc' = CASE event_type = "PolicyCreated" -> "on_policy_created"
                  [] event_type = "PolicyPurchased" -> "on_policy_purchased"
                  [] event_type = "PolicySettled" -> "on_policy_settled"
                  [] OTHER -> "handled"
    /\ UNCHANGED <<cycle_vars, server_vars, running, stop_called, tasks>>

\* _on_policy_created: a log line, no action
OnPolicyCreated ==
    /\ pc = "on_policy_created"
    /\ pc' = "handled"
    /\ UNCHANGED <<cycle_vars, server_vars, running, stop_called, tasks>>

\* the snapshot and the plan a handler computes, and whether it goes on to
\* the executor
OnPolicyPlan(snap, apys, failed, execute) ==
    /\ snapshot' = snap
    /\ plan' = CalculateIntegratedAllocation(snap, apys)
    /\ error' = failed
    /\ IF execute
       THEN /\ pc' = "ensure"
            /\ rebalance_log' = Append(rebalance_log, LogLine(LogExecuting))
       ELSE /\ pc' = "handled"
            /\ UNCHANGED rebalance_log

\* the snapshots get_protocol_snapshot may return to a handler: the one of
\* its except block when it failed
HandlerSnapshots(failed) ==
    IF failed
    THEN {FallbackSnapshot}
    ELSE {SnapshotOf(OpenPolicies(reads), AvailableLiquidity(balance)) :
             reads \in UNION {[1..k -> PolicyReads] : k \in 0..MaxOpen},
             balance \in BalanceReads}

\* _on_policy_purchased: nothing when the policy is not found, else the
\* executor runs if current_reserve_ratio < self.reserve_ratio
OnPolicyPurchased ==
    /\ pc = "on_policy_purchased"
    /\ \/ /\ pc' = "handled"
          /\ UNCHANGED <<snapshot, plan, error, rebalance_log>>
       \/ \E failed \in BOOLEAN :
             \E snap \in HandlerSnapshots(failed), apys \in ApyReads :
                OnPolicyPlan(snap, apys, failed,
                   RLt(CalculateIntegratedAllocation(snap, apys).current_reserve_ratio,
                    reserve_ratio))
    /\ UNCHANGED <<current_balance, ensure_locals, didx, withdraw_calls, deposit_calls,
                   last_rebalance, last_rebalance_writes, sleep_seconds>>
    /\ UNCHANGED outer_vars

\* faulty variant: a settlement runs the executor whatever is deployable
OnPolicySettledAlways ==
    /\ pc = "on_policy_settled"
    /\ \E failed \in BOOLEAN :
          \E snap \in HandlerSnapshots(failed), apys \in ApyReads :
             OnPolicyPlan(snap, apys, failed, TRUE)
    /\ UNCHANGED <<current_balance, ensure_locals, didx, withdraw_calls, deposit_calls,
                   last_rebalance, last_rebalance_writes, sleep_seconds>>
    /\ UNCHANGED outer_vars

\* _on_policy_settled: the executor runs if deployable_funds > 1000
OnPolicySettled ==
    /\ pc = "on_policy_settled"
    /\ \E failed \in BOOLEAN :
          \E snap \in HandlerSnapshots(failed), apys \in ApyReads :
             OnPolicyPlan(snap, apys, failed,
                RGt(CalculateIntegratedAllocation(snap, apys).deployable_funds,
                 SettledMinimumDeployable))
    /\ UNCHANGED <<current_balance, ensure_locals, didx, withdraw_calls, deposit_calls,
                   last_rebalance, last_rebalance_writes, sleep_seconds>>
    /\ UNCHANGED outer_vars

\* the except of _execute_integrated_rebalance when get_balance raises, in a
\* handler: the executor returns to the handler
OnPolicyBalanceError ==
    /\ pc = "ensure"
    /\ error' = TRUE
    /\ pc' = "handled"
    /\ rebalance_log' = Append(rebalance_log, LogLine(LogRebalanceError))
    /\ UNCHANGED <<last_rebalance_writes, sleep_seconds>>
    /\ UNCHANGED outer_vars
    /\ UNCHANGED <<snapshot, plan, current_balance, ensure_locals, didx, withdraw_calls,
                   deposit_calls, last_rebalance>>

\* self.vault_state.last_rebalance = datetime.now() at the end of the
\* executor, in a handler
OnPolicyFinishRebalance ==
    /\ pc = "deploy"
    /\ RLe(plan.deployable_funds, RZero) \/ didx > Len(StrategyNames)
    /\ last_rebalance' = Now
    /\ pc' = "handled"
    /\ last_rebalance_writes' = last_rebalance_writes + 1
    /\ rebalance_log' = Append(rebalance_log, LogLine(LogCompleted))
    /\ UNCHANGED sleep_seconds
    /\ UNCHANGED outer_vars
    /\ UNCHANGED <<snapshot, plan, current_balance, ensure_locals, didx, withdraw_calls,
                   deposit_calls, error>>

\* the handler returns; its locals are gone
OnPolicyReturn ==
    /\ pc = "handled"
    /\ pc' = "idle"
    /\ snapshot' = NoSnapshot
    /\ plan' = NoPlan
    /\ current_balance' = NoBalance
    /\ didx' = 0
    /\ withdraw_calls' = <<>>
    /\ deposit_calls' = <<>>
    /\ error' = FALSE
    /\ rebalance_log' = <<>>
    /\ last_rebalance_writes' = 0
    /\ UNCHANGED outer_vars
    /\ UNCHANGED <<ensure_locals, last_rebalance, sleep_seconds>>

EventsNext ==
    \/ HandlePolicyEvent
    \/ OnPolicyCreated
    \/ OnPolicyPurchased
    \/ OnPolicySettled
    \/ OnPolicyBalanceError
    \/ EnsureAdequate
    \/ DeployToStrategy
    \/ OnPolicyFinishRebalance
    \/ OnPolicyReturn

SpecEvents == InitLoop /\ [][EventsNext]_vars

(***************************************************************************)
(* Properties                                                              *)
(***************************************************************************)
\* the plan of the cycle has been computed
PlanReady == pc \in {"decide", "ensure", "withdraw", "deploy", "sleep"}

RAbs(a) == [n |-> Abs(a.n), d |-> a.d]

RECURSIVE SumAmounts(_)
SumAmounts(calls) ==
    IF calls = <<>> THEN RZero ELSE RAdd(Head(calls).amount, SumAmounts(Tail(calls)))

RECURSIVE SumSucceeded(_)
SumSucceeded(calls) ==
    IF calls = <<>> THEN RZero
    ELSE RAdd(IF Head(calls).success THEN Head(calls).amount ELSE RZero,
              SumSucceeded(Tail(calls)))

ReserveTarget == RAdd(plan.required_reserves, plan.safety_buffer)

\* C1: the amounts passed to deploy_to_strategy in one execution sum to at most
\* the plan's deployable_funds, so with deployable_funds > 0 the plan's liquidity
\* minus everything deposited is at least required_reserves + safety_buffer,
\* whichever deposits succeed.
C1_DepositsWithinDeployable ==
    LET deposited == SumAmounts(deposit_calls)
    IN  /\ RLe(deposited, plan.deployable_funds)
        /\ RGt(plan.deployable_funds, RZero) =>
              RLe(ReserveTarget, RSub(plan.total_funds, deposited))

C1_Witness ==
    /\ pc = "sleep"
    /\ Len(deposit_calls) = 3
    /\ RGt(plan.required_reserves, RZero)
    /\ \E i, j \in 1..3 : deposit_calls[i].success /\ ~deposit_calls[j].success
    /\ SumAmounts(deposit_calls) = plan.deployable_funds

\* C2: for a snapshot with available_liquidity >= 0 the plan holds
\* required_reserves = total_reserves_required, safety_buffer = 0.2 * required,
\* deployable_funds = max(0, liquidity - (required + buffer)) and
\* current_reserve_ratio = (required + buffer) / liquidity (0 for liquidity 0);
\* liquidity 100000 with reserves 20000 gives 20000 / 4000 / 76000 / 0.24.
C2_PlanFigures ==
    (PlanReady /\ RLe(RZero, snapshot.available_liquidity)) =>
        LET liquidity == snapshot.available_liquidity
            required == snapshot.total_reserves_required
            needed == RAdd(required, plan.safety_buffer)
            excess == RSub(liquidity, needed)
        IN  /\ plan.required_reserves = required
            /\ RMul(plan.safety_buffer, RInt(5)) = required
            /\ plan.deployable_funds = (IF RGt(excess, RZero) THEN excess ELSE RZero)
            /\ RLe(RZero, plan.deployable_funds)
            /\ RGt(liquidity, RZero) => RMul(plan.current_reserve_ratio, liquidity) = needed
            /\ liquidity = RZero => plan.current_reserve_ratio = RZero
            /\ (liquidity = RInt(100000) /\ required = RInt(20000)) =>
                  /\ plan.safety_buffer = RInt(4000)
                  /\ plan.deployable_funds = RInt(76000)
                  /\ plan.current_reserve_ratio = R(24, 100)

C2_Witness ==
    /\ PlanReady
    /\ snapshot.available_liquidity = RInt(100000)
    /\ snapshot.total_reserves_required = RInt(20000)
    /\ plan.deployable_funds = RInt(76000)

RECURSIVE C3_ReserveSum(_)
C3_ReserveSum(ps) ==
    IF ps = <<>> THEN RZero
    ELSE RAdd(IF Head(ps).state = "Active" THEN Head(ps).payout_amount ELSE RZero,
              C3_ReserveSum(Tail(ps)))

\* C3: every snapshot get_protocol_snapshot returns, from its try block or from
\* its except block, has total_reserves_required equal to the sum over its
\* active_policies of payout_amount where the state is Active and 0 otherwise.
C3_SnapshotReserves ==
    snapshot # NoSnapshot =>
        snapshot.total_reserves_required = C3_ReserveSum(snapshot.active_policies)

C3_Witness ==
    /\ snapshot # NoSnapshot
    /\ ~error
    /\ Len(snapshot.open_policies) = 2
    /\ \E i \in 1..2 : snapshot.open_policies[i].state = "Active"
    /\ RGt(snapshot.available_liquidity, RZero)

\* C4: a snapshot with negative available_liquidity makes the reserve
\* computation fail: no plan is produced, no withdraw or deposit is issued and
\* the cycle aborts.
C4_NegativeLiquidityAborts ==
    (snapshot # NoSnapshot /\ RLt(snapshot.available_liquidity, RZero)) =>
        /\ plan = NoPlan
        /\ pc \in {"calculate", "sleep"}
        /\ withdraw_calls = <<>>
        /\ deposit_calls = <<>>

\* C5: optimal_allocation sums to 100 (within 1e-6) when deployable_funds > 0,
\* is 0 in every entry when deployable_funds <= 0, and is never negative.
C5_AllocationSum ==
    PlanReady =>
        LET a == plan.optimal_allocation
            total == RAdd(RAdd(a["init_looping"], a["circuit_vault"]), a["mnt_staking"])
        IN  /\ \A s \in Strategies : RLe(RZero, a[s])
            /\ RGt(plan.deployable_funds, RZero) =>
                  RLe(RAbs(RSub(total, RInt(100))), R(1, 1000000))
            /\ RLe(plan.deployable_funds, RZero) => \A s \in Strategies : a[s] = RZero

C5_Witness ==
    /\ PlanReady
    /\ RGt(plan.deployable_funds, RZero)
    /\ Len(snapshot.active_policies) > 10
    /\ plan.optimal_allocation["init_looping"] # RInt(45)

\* C6: the risk multiplier is 0.8 for more than 10 active policies, 1.2 for
\* fewer than 3 and 1.0 for 3..10; the allocation is (0.45 * multiplier, 0.35,
\* 0.20) normalized by its sum: 12 policies give (0.36, 0.35, 0.20) over 0.91.
C6_RiskMultiplier ==
    (PlanReady /\ RGt(plan.deployable_funds, RZero)) =>
        LET n == Len(snapshot.active_policies)
            m == IF n > 10 THEN R(8, 10) ELSE IF n < 3 THEN R(12, 10) ELSE RInt(1)
            first == RMul(R(45, 100), m)
            total == RAdd(RAdd(first, R(35, 100)), R(20, 100))
            a == plan.optimal_allocation
        IN  /\ RMul(a["init_looping"], total) = RMul(first, RInt(100))
            /\ RMul(a["circuit_vault"], total) = RInt(35)
            /\ RMul(a["mnt_staking"], total) = RInt(20)
            /\ n \in {3, 10} =>
                  /\ a["init_looping"] = RInt(45)
                  /\ a["circuit_vault"] = RInt(35)
                  /\ a["mnt_staking"] = RInt(20)
            /\ n = 12 =>
                  /\ a["init_looping"] = R(3600, 91)
                  /\ a["circuit_vault"] = R(3500, 91)
                  /\ a["mnt_staking"] = R(2000, 91)

C6_Witness ==
    /\ PlanReady
    /\ RGt(plan.deployable_funds, RZero)
    /\ Len(snapshot.active_policies) = 12
    /\ plan.optimal_allocation["init_looping"] = R(3600, 91)

\* the expiry condition as the specification states it: the expiry is set and
\* max(0, expiry - now) is below the 3600 second window
NearExpiry(p) ==
    /\ p.expiry_timestamp # None
    /\ (IF p.expiry_timestamp[1] - Now > 0 THEN p.expiry_timestamp[1] - Now ELSE 0) < 3600

\* C7: should_rebalance is true iff one of the three trigger conditions holds
\* (reserve ratio below 0.15, APY spread above the threshold, a near-expiry
\* active policy), and reasons holds one entry per true condition, in that
\* order, and nothing else.
C7_TriggerIffConditions ==
    PlanReady =>
        LET apys == plan.strategy_apys
            active == snapshot.active_policies
            low == RLt(plan.current_reserve_ratio, R(15, 100))
            spread == \E s, t \in Strategies : RGt(RSub(apys[s], apys[t]), R(1, 2))
            expiring == \E i \in 1..Len(active) : NearExpiry(active[i])
        IN  /\ plan.should_rebalance = (low \/ spread \/ expiring)
            /\ plan.reasons =
                  (IF low THEN <<ReasonReserves>> ELSE <<>>)
                  \o (IF spread THEN <<ReasonApySpread>> ELSE <<>>)
                  \o (IF expiring THEN <<ReasonExpiring>> ELSE <<>>)

\* C8: the expiry condition holds for every active policy whose expiry is set
\* and whose time_to_expiry = max(0, expiry - now) is below 3600, a policy whose
\* expiry has been reached included, and for no policy without an expiry.
C8_ExpiryCondition ==
    PlanReady =>
        LET active == snapshot.active_policies
            near == {i \in 1..Len(active) : NearExpiry(active[i])}
        IN  /\ plan.upcoming_expirations = Cardinality(near)
            /\ (\E k \in 1..Len(plan.reasons) : plan.reasons[k] = ReasonExpiring)
                  <=> near # {}

\* C9: in phase 1 the total successfully withdrawn never exceeds the shortfall
\* computed at the start (target minus the reserve balance read), whichever
\* withdrawals succeed, and remaining_shortfall never becomes negative.
C9_WithdrawnWithinShortfall ==
    /\ withdraw_calls # <<>> =>
          RLe(SumSucceeded(withdraw_calls), RSub(ReserveTarget, current_balance))
    /\ pc = "withdraw" =>
          /\ RLe(RZero, remaining_shortfall)
          /\ shortfall = RSub(ReserveTarget, current_balance)

C9_Witness ==
    /\ pc = "withdraw"
    /\ Len(withdraw_calls) = 3
    /\ ~withdraw_calls[1].success
    /\ withdraw_calls[2].success
    /\ withdraw_calls[3].success
    /\ remaining_shortfall = RZero
    /\ SumSucceeded(withdraw_calls) = shortfall

\* C10: with the balance below target, phase 1 attempts the withdrawals in
\* ascending order of strategy APY, each for min(remaining_shortfall,
\* 0.5 * shortfall), and none once remaining_shortfall is 0: when the two
\* lowest-APY withdrawals succeed the highest-APY strategy is not touched.
\* With the balance at or above target no withdraw is issued.
C10_WithdrawOrder ==
    LET initial == RSub(ReserveTarget, current_balance)
        calls == withdraw_calls
        Before(k) == RSub(initial, SumSucceeded(SubSeq(calls, 1, k - 1)))
    IN  /\ pc = "withdraw" =>
              /\ Len(strategies_by_apy) = 3
              /\ {strategies_by_apy[i].name : i \in 1..3} = Strategies
              /\ \A i, j \in 1..3 :
                    i < j => RLe(strategies_by_apy[i].apy, strategies_by_apy[j].apy)
              /\ \A k \in 1..Len(calls) : calls[k].name = strategies_by_apy[k].name
        /\ \A k \in 1..Len(calls) :
              /\ RGt(Before(k), RZero)
              /\ calls[k].amount = RMin(Before(k), RMul(initial, R(1, 2)))
        /\ (Len(calls) >= 2 /\ calls[1].success /\ calls[2].success) => Len(calls) = 2
        /\ (current_balance # NoBalance /\ RLe(ReserveTarget, current_balance)) =>
              calls = <<>>

C10_Witness ==
    /\ pc = "withdraw"
    /\ shortfall = RInt(5000)
    /\ withdraw_calls =
          <<[name |-> "mnt_staking", amount |-> RInt(2500), success |-> TRUE],
            [name |-> "circuit_vault", amount |-> RInt(2500), success |-> TRUE]>>
    /\ strategies_by_apy[3] = [name |-> "init_looping", apy |-> R(85, 10)]
    /\ remaining_shortfall = RZero
    /\ widx = 3

\* C11: a failed phase-1 withdrawal leaves remaining_shortfall as it was (it is
\* the shortfall minus the successful withdrawals only), the loop moves on to
\* the next strategy in the order, and no strategy is called twice in one
\* execution.
C11_FailedWithdrawNoRetry ==
    LET calls == withdraw_calls
    IN  /\ \A i, j \in 1..Len(calls) : i # j => calls[i].name # calls[j].name
        /\ pc = "withdraw" =>
              /\ remaining_shortfall = RSub(shortfall, SumSucceeded(calls))
              /\ widx = Len(calls) + 1
              /\ \A k \in 1..Len(calls) : calls[k].name = strategies_by_apy[k].name

C11_Witness ==
    /\ pc = "withdraw"
    /\ Len(withdraw_calls) = 2
    /\ ~withdraw_calls[1].success
    /\ withdraw_calls[2].success
    /\ withdraw_calls[1].name = strategies_by_apy[1].name
    /\ withdraw_calls[2].name = strategies_by_apy[2].name
    /\ remaining_shortfall = RSub(shortfall, withdraw_calls[2].amount)
    /\ RGt(remaining_shortfall, RZero)

\* what phase 1 left uncovered: the shortfall minus the successful withdrawals
LeftoverShortfall ==
    RSub(RSub(ReserveTarget, current_balance), SumSucceeded(withdraw_calls))

\* C12: when phase 1 has gone through the strategies and part of the
\* shortfall is left, the last line logged before phase 2 begins reports that
\* leftover amount (a line other than the detection line and the withdrawal
\* lines), and no further withdraw is issued in this execution.
C12_LeftoverReported ==
    (pc = "deploy" /\ didx = 1 /\ withdraw_calls # <<>>
       /\ RGt(LeftoverShortfall, RZero)) =>
        LET line == rebalance_log[Len(rebalance_log)]
        IN  /\ line.msg \notin {LogShortfallDetected, LogWithdrew}
            /\ line.amount = Some(LeftoverShortfall)

\* C13: within one execution no deposit is issued until phase 1 has finished:
\* as long as the execution is at the balance read or in the withdrawal loop
\* (where a withdraw call can still be issued) no deploy_to_strategy call has
\* been made, and deposits exist only once the execution is in phase 2 or over.
C13_DepositsAfterPhase1 ==
    /\ pc \in {"ensure", "withdraw"} => deposit_calls = <<>>
    /\ deposit_calls # <<>> =>
          /\ pc \in {"deploy", "sleep"}
          /\ ensure_locals = <<RZero, RZero, <<>>, 0>>

C13_Witness ==
    /\ pc = "deploy"
    /\ Len(withdraw_calls) = 3
    /\ ~withdraw_calls[3].success
    /\ Len(deposit_calls) = 1

\* the deployable figure after phase 1: the reserve balance read plus what the
\* withdrawals brought in, less the reserve target, floored at 0
PostWithdrawalDeployable ==
    RMax(RZero, RSub(RAdd(current_balance, SumSucceeded(withdraw_calls)), ReserveTarget))

\* C14: every amount deposited in phase 2 is the allocation percentage of the
\* deployable figure as it stands after the phase-1 withdrawals, not of the
\* figure the plan computed from the snapshot before phase 1.
C14_DepositsUsePostWithdrawalFigure ==
    deposit_calls # <<>> =>
        /\ RGt(PostWithdrawalDeployable, RZero)
        /\ \A k \in 1..Len(deposit_calls) :
              deposit_calls[k].amount =
                 DeployAmount(PostWithdrawalDeployable,
                              plan.optimal_allocation[deposit_calls[k].name])

\* the strategies phase 2 is to deposit into, in the order of optimal_allocation
AllocatedStrategies ==
    SelectSeq(StrategyNames, LAMBDA s : RGt(plan.optimal_allocation[s], RZero))

\* C15: in phase 2 with deployable_funds > 0 the deposit attempts are, in
\* order, one per strategy whose allocation is above 0, each of amount
\* deployable_funds * allocation / 100; when the phase is over every such
\* strategy has had its attempt, whichever attempts failed.
C15_OneDepositPerStrategy ==
    (pc \in {"deploy", "sleep"} /\ RGt(plan.deployable_funds, RZero)) =>
        LET calls == deposit_calls
            expected == AllocatedStrategies
        IN  /\ Len(calls) <= Len(expected)
            /\ \A k \in 1..Len(calls) :
                  /\ calls[k].name = expected[k]
                  /\ calls[k].amount =
                        RDiv(RMul(plan.deployable_funds,
                                  plan.optimal_allocation[expected[k]]), RInt(100))
            /\ (pc = "sleep" /\ plan.should_rebalance /\ ~error) =>
                  Len(calls) = Len(expected)

C15_Witness ==
    /\ pc = "sleep"
    /\ RGt(plan.deployable_funds, RZero)
    /\ Len(deposit_calls) = 3
    /\ ~deposit_calls[1].success
    /\ deposit_calls[2].success
    /\ ~deposit_calls[3].success
    /\ withdraw_calls # <<>>

\* an execution of _execute_integrated_rebalance has been started in this cycle
ExecutorRan ==
    \E i \in 1..Len(rebalance_log) : rebalance_log[i] = LogLine(LogExecuting)

C16_OnceWhenBalanceRead ==
    /\ last_rebalance_writes <= 1
    /\ (pc = "sleep" /\ ExecutorRan /\ current_balance # NoBalance) =>
          /\ last_rebalance_writes = 1
          /\ last_rebalance = Now

\* C18: once started, the loop runs cycle after cycle and returns only after
\* an explicit stop: whenever the loop function has returned, stop_monitoring
\* has been called.
C18_LoopReturnsOnlyOnStop ==
    pc = "returned" => stop_called

\* the cycle is inside _execute_integrated_rebalance
Executing == pc \in {"ensure", "withdraw", "deploy"}

\* an upper bound on the steps the cycle still takes before it sleeps
StepsToSleep ==
    CASE pc = "sleep" -> 0
      [] pc = "deploy" -> 1 + (Len(StrategyNames) + 1 - didx)
      [] pc = "withdraw" -> 6 + (Len(StrategyNames) + 1 - widx)
      [] pc = "ensure" -> 11
      [] pc = "decide" -> 12
      [] OTHER -> 14

\* C17: in every cycle the executor runs iff the plan of that cycle has
\* should_rebalance true, it runs only once the snapshot has been fetched and
\* the plan computed from it, and the cycle then always proceeds to the sleep
\* step: from the decision on, every step stays in the cycle and brings it
\* closer to the sleep, which it enters with a sleep time set.
C17_ExecutorIffShouldRebalance ==
    /\ [](/\ (Executing \/ ExecutorRan) =>
                /\ snapshot # NoSnapshot
                /\ plan # NoPlan
                /\ plan.total_funds = snapshot.available_liquidity
                /\ plan.should_rebalance
          /\ Executing => ExecutorRan
          /\ pc = "sleep" => (ExecutorRan <=> plan.should_rebalance)
          /\ pc = "sleep" => sleep_seconds > 0)
    /\ [][(pc = "decide" \/ Executing) =>
             /\ pc' \in {"ensure", "withdraw", "deploy", "sleep"}
             /\ StepsToSleep' < StepsToSleep]_vars

C17_Witness ==
    /\ pc = "sleep"
    /\ ~plan.should_rebalance
    /\ ~ExecutorRan
    /\ last_rebalance = Now
    /\ RGt(snapshot.total_reserves_required, RZero)

IssuingDeposits(i) ==
    /\ tasks[i].pc = "deploy"
    /\ tasks[i].awaiting \/ tasks[i].idx > 1
    /\ RGt(tasks[i].current_balance, RZero)

\* C20: at most one rebalance execution is in flight at any time: no two
\* executions that issue deposits or withdrawals overlap.
C20_OneExecutionInFlight ==
    \A i, j \in 1..Len(tasks) :
        (IssuingDeposits(i) /\ IssuingDeposits(j)) => i = j


\* the adapter on which execution i has a deposit call in flight, if any
AdapterInFlight(i) ==
    IF tasks[i].pc = "deploy" /\ tasks[i].awaiting
    THEN {StrategyNames[tasks[i].idx]}
    ELSE {}

\* C21: calls on one strategy adapter are serialised: no call on an adapter
\* starts while another call on the same adapter is in flight, so no two
\* executions are awaiting a deposit on the same strategy.
C21_AdapterCallsSerialised ==
    \A i, j \in 1..Len(tasks) :
        (AdapterInFlight(i) \cap AdapterInFlight(j) # {}) => i = j


\* the loop is inside a cycle: between its while test and the end of the sleep
InCycle == pc \in {"fetch", "calculate", "decide", "ensure", "withdraw", "deploy", "sleep"}

\* an upper bound on the steps the cycle still takes before it sleeps, from
\* the snapshot fetch on
CycleStepsLeft ==
    CASE pc = "fetch" -> 14
      [] pc = "calculate" -> 13
      [] OTHER -> StepsToSleep

\* C22: a stop of the monitoring during a cycle in flight does not interrupt
\* the cycle: the stop changes neither the position of the cycle nor its
\* state, the remaining steps of the cycle run on to the sleep and to the
\* while test whatever the running flag, and once the test has observed the
\* stop the loop returns: a new cycle starts only from a test that finds the
\* flag set.
C22_StopAtCycleBoundary ==
    /\ [][(running /\ ~running') => (pc' = pc /\ UNCHANGED cycle_vars)]_vars
    /\ [][(InCycle /\ pc' # pc) =>
             /\ pc' \in {"calculate", "decide", "ensure", "withdraw", "deploy",
                         "sleep", "test"}
             /\ pc' = "test" <=> pc = "sleep"
             /\ pc # "sleep" => CycleStepsLeft' < CycleStepsLeft]_vars
    /\ [][(pc' = "fetch" /\ pc # "fetch") => (pc = "test" /\ running)]_vars
    /\ [][(pc = "test" /\ ~running /\ pc' # pc) => pc' = "returned"]_vars

\* the loop was stopped during a cycle, and the cycle has made all its
\* deposits, recorded the rebalance and reached its sleep
C22_Witness ==
    /\ pc = "sleep"
    /\ stop_called
    /\ ~running
    /\ Len(deposit_calls) = Len(StrategyNames)
    /\ last_rebalance = Now
    /\ last_rebalance_writes = 1


\* the fallback APY of each strategy's get_current_apy
FallbackApys ==
    [s \in Strategies |->
        CASE s = "init_looping" -> R(85, 10)
          [] s = "circuit_vault" -> R(68, 10)
          [] s = "mnt_staking" -> R(45, 10)]

\* C23: a failure of the snapshot fetch or of an APY read never propagates
\* out of the call: a failed snapshot fetch hands the cycle a snapshot value
\* (the empty fallback snapshot), a failed APY read gives the strategy's
\* fallback APY (8.5, 6.8, 4.5), and the cycle goes on from the fetch to the
\* planning and from the planning to the decision with a plan made from them.
C23_ReadFailuresFallBack ==
    /\ [](/\ (pc \in {"calculate", "decide"} /\ error) => snapshot = FallbackSnapshot
          /\ pc \in {"calculate", "decide"} => snapshot # NoSnapshot
          /\ pc = "decide" =>
                /\ plan = CalculateIntegratedAllocation(snapshot, plan.strategy_apys)
                /\ \A f \in FeedReads :
                      plan.strategy_apys = StrategyApysOf(f) =>
                         \A s \in Strategies :
                            f[s] = None => plan.strategy_apys[s] = FallbackApys[s])
    /\ [][(pc = "fetch" /\ pc' # pc) => pc' = "calculate"]_vars
    /\ [][(pc = "calculate" /\ pc' # pc) =>
             /\ pc' = "decide"
             /\ snapshot' = snapshot
             /\ \E f \in FeedReads : plan'.strategy_apys = StrategyApysOf(f)]_vars

\* the snapshot fetch and the reads of init_looping and circuit_vault have
\* failed, and the cycle has its plan
C23_Witness ==
    /\ pc = "decide"
    /\ error
    /\ snapshot = FallbackSnapshot
    /\ plan.strategy_apys = FallbackApys
    /\ plan.total_funds = RZero


\* the allocation percentages do not sum to 100 within 0.1
SumOff(target_allocations) ==
    LET total == RAdd(target_allocations["init_looping"],
                      RAdd(target_allocations["circuit_vault"],
                           target_allocations["mnt_staking"]))
    IN  RGt(RAbs(RSub(total, RInt(100))), R(1, 10))

\* C24: an externally supplied allocation map whose percentages do not sum to
\* 100 (beyond the 0.1 tolerance) is rejected with an error before anything
\* is executed: its request never reaches the deposit loop, issues no
\* deposit, ends as an error, and changes no state of the agent.
C24_BadAllocationRejected ==
    /\ [](\A i \in 1..Len(tasks) :
             SumOff(tasks[i].target_allocations) =>
                /\ tasks[i].pc \in {"start", "rejected", "http_500", "done"}
                /\ tasks[i].idx = 0
                /\ ~tasks[i].awaiting
                /\ tasks[i].current_balance = NoBalance)
    /\ [][\A i \in 1..Len(tasks) :
             SumOff(tasks[i].target_allocations) =>
                /\ tasks[i].pc = "start" =>
                      \/ tasks'[i] = tasks[i]
                      \/ /\ tasks'[i].pc \in {"rejected", "done"}
                         /\ UNCHANGED <<pc, cycle_vars, server_vars, running, stop_called>>
                /\ tasks[i].pc # "start" => tasks'[i] = tasks[i]]_vars

\* a tool call and an allocate request, each with a map that sums to 100.2
\* or to 90, have both been rejected
C24_Witness ==
    \E i, j \in 1..Len(tasks) :
        /\ tasks[i].pc = "rejected"
        /\ tasks[j].pc = "http_500"
        /\ SumOff(tasks[i].target_allocations)
        /\ SumOff(tasks[j].target_allocations)


\* the deposits execute_rebalance issues for manual_rebalance on a reserve
\* balance: one per strategy, of 45, 35 and 20 percent of the balance
ManualDepositCalls(balance) ==
    LET named == SelectSeq(StrategyNames,
                           LAMBDA s : RGt(TargetAmount(balance, s), RZero))
    IN  [i \in 1..Len(named) |->
            [name |-> named[i], amount |-> TargetAmount(balance, named[i])]]

\* the strategy and amount of each call of a series
CallAmounts(calls) ==
    [i \in 1..Len(calls) |-> [name |-> calls[i].name, amount |-> calls[i].amount]]

\* C25: a manual rebalance is equivalent to one forced cycle: on the same
\* protocol state (the same reserve balance) the scheduled cycle whose
\* trigger fired makes the same withdraw and deposit calls, with the same
\* amounts, as the manual rebalance, which withdraws nothing and deposits
\* 45, 35 and 20 percent of the balance.
C25_ManualEqualsForcedCycle ==
    (pc = "sleep" /\ ExecutorRan /\ current_balance # NoBalance) =>
        /\ CallAmounts(withdraw_calls) = <<>>
        /\ CallAmounts(deposit_calls) = ManualDepositCalls(current_balance)


\* C26: vault_state.last_rebalance (like last_protocol_snapshot) is written
\* by the monitoring loop only: the handlers of the policy events, like the
\* dashboard readers, the manual rebalance and the workflow wrapper, leave it
\* unchanged, so no step of the handling of a policy event writes it.
C26_OnlyLoopWritesRecords ==
    [][last_rebalance' = last_rebalance /\ last_rebalance_writes' <= last_rebalance_writes]_vars


\* get_integrated_dashboard_data: fomo_insurance.reserve_ratio of the last
\* protocol snapshot
DashboardReserveRatio(last_protocol_snapshot) ==
    IF RGt(last_protocol_snapshot.available_liquidity, RZero)
    THEN RDiv(last_protocol_snapshot.total_reserves_required,
              last_protocol_snapshot.available_liquidity)
    ELSE RZero

\* GET /api/fomo/status: reserve_ratio of the last protocol snapshot
FomoStatusReserveRatio(last_protocol_snapshot) ==
    IF RGt(last_protocol_snapshot.available_liquidity, RZero)
    THEN RDiv(last_protocol_snapshot.total_reserves_required,
              last_protocol_snapshot.available_liquidity)
    ELSE RZero

\* C27: every place that reports a reserve ratio reports the same value for
\* the same snapshot: the ratio of the dashboard data and the ratio of
\* GET /api/fomo/status, read from the snapshot of the cycle, equal the
\* current_reserve_ratio of the plan made from that snapshot
\* (total_reserves_needed / available_liquidity).
C27_ReserveRatioReportsAgree ==
    PlanReady =>
        /\ DashboardReserveRatio(snapshot) = plan.current_reserve_ratio
        /\ FomoStatusReserveRatio(snapshot) = plan.current_reserve_ratio


\* what the planner gives on every snapshot and every read of the APYs:
\* the deployable funds, the number of active policies and the allocation
PlannerRuns ==
    {[deployable_funds |-> CalculateIntegratedAllocation(s, a).deployable_funds,
      active_count |-> Len(s.active_policies),
      strategy_apys |-> a,
      optimal_allocation |-> CalculateIntegratedAllocation(s, a).optimal_allocation] :
        s \in InputSnapshots, a \in ApyReads}

\* C28: the planner's allocation is a function of the deployable funds and
\* of the number of active policies alone: any other run of the planner with
\* the same deployable_funds and the same number of active policies gives the
\* optimal_allocation of the plan of this cycle, whatever APYs it read.
C28_AllocationDeterministic ==
    pc = "decide" =>
        \A r \in PlannerRuns :
            (/\ r.deployable_funds = plan.deployable_funds
             /\ r.active_count = Len(snapshot.active_policies))
                => r.optimal_allocation = plan.optimal_allocation

\* the plan of this cycle deploys funds, and another run of the planner had
\* the same deployable funds and active policies with other APYs
C28_Witness ==
    /\ pc = "decide"
    /\ RGt(plan.deployable_funds, RZero)
    /\ Len(snapshot.active_policies) > HighActivity
    /\ \E r \in PlannerRuns :
          /\ r.deployable_funds = plan.deployable_funds
          /\ r.active_count = Len(snapshot.active_policies)
          /\ r.strategy_apys # plan.strategy_apys
          /\ r.optimal_allocation = plan.optimal_allocation


\* phase 1 is over: the withdrawal loop has left its last iteration
WithdrawalsOver ==
    /\ pc = "withdraw"
    /\ widx > Len(strategies_by_apy) \/ RLe(remaining_shortfall, RZero)

\* the number of withdrawals of this execution that succeeded
SucceededWithdrawals ==
    Cardinality({i \in 1..Len(withdraw_calls) : withdraw_calls[i].success})

\* C29: with the three strategies and a positive shortfall, phase 1 ends
\* with remaining_shortfall = 0 exactly when at least two withdrawals
\* succeeded; when fewer than two succeeded, the shortfall left over is at
\* least half of the original shortfall.
C29_TwoWithdrawalsCoverShortfall ==
    WithdrawalsOver =>
        /\ Len(strategies_by_apy) = 3
        /\ RGt(shortfall, RZero)
        /\ remaining_shortfall = RZero <=> SucceededWithdrawals >= 2
        /\ SucceededWithdrawals < 2 =>
              ~RLt(remaining_shortfall, RMul(shortfall, R(1, 2)))

\* phase 1 is over with one withdrawal failed and two succeeded
C29_Witness ==
    /\ WithdrawalsOver
    /\ Len(withdraw_calls) = 3
    /\ SucceededWithdrawals = 2
    /\ remaining_shortfall = RZero
    /\ RGt(shortfall, RZero)


\* the plan gives the insufficient-reserves reason
ReservesReasonRaised ==
    \E i \in 1..Len(plan.reasons) : plan.reasons[i] = ReasonReserves

\* C30: whenever the available liquidity is positive but below
\* required_reserves + safety_buffer (deployable_funds is 0) the plan has
\* should_rebalance true with the insufficient-reserves reason; conversely
\* the reason is never raised when the liquidity covers required_reserves +
\* safety_buffer.
C30_InsufficientReservesReason ==
    PlanReady =>
        LET needed == RAdd(snapshot.total_reserves_required,
                           RMul(snapshot.total_reserves_required, R(2, 10)))
            liquidity == snapshot.available_liquidity
        IN  /\ (RGt(liquidity, RZero) /\ RLt(liquidity, needed)) =>
                  /\ plan.deployable_funds = RZero
                  /\ plan.should_rebalance
                  /\ ReservesReasonRaised
            /\ ~RLt(liquidity, needed) => ~ReservesReasonRaised


\* C31: a manual rebalance never deploys capital needed for reserves: on the
\* reserve balance and the required reserves and safety buffer of the
\* current protocol state, the amounts manual_rebalance deposits sum to at
\* most the balance minus (required_reserves + safety_buffer).
C31_ManualKeepsReserves ==
    (PlanReady /\ current_balance # NoBalance) =>
        RLe(SumAmounts(ManualDepositCalls(current_balance)),
            RSub(current_balance, RequiredAmount(plan)))


\* the balance read at the start of phase 1 is the liquidity of the snapshot
BalanceAsInSnapshot ==
    /\ current_balance # NoBalance
    /\ current_balance = snapshot.available_liquidity

\* C32: when the reserve balance read at the start of phase 1 equals the
\* available_liquidity of the snapshot the plan was made from, one execution
\* never issues both a withdrawal and a deposit: a shortfall means
\* deployable_funds = 0, and deployable funds mean no shortfall.
C32_WithdrawOrDepositNotBoth ==
    (Executing \/ pc = "sleep") =>
        (BalanceAsInSnapshot =>
            /\ ~(withdraw_calls # <<>> /\ deposit_calls # <<>>)
            /\ withdraw_calls # <<>> => plan.deployable_funds = RZero
            /\ RGt(plan.deployable_funds, RZero) => withdraw_calls = <<>>)

\* an execution whose balance is the snapshot's liquidity had a shortfall,
\* made its withdrawals and ended without a deposit
C32_Witness ==
    /\ pc = "sleep"
    /\ BalanceAsInSnapshot
    /\ RGt(current_balance, RZero)
    /\ Len(withdraw_calls) >= 2
    /\ deposit_calls = <<>>
    /\ last_rebalance_writes = 1

\* the balance differs from the snapshot's liquidity: the execution has
\* withdrawn for the shortfall and deposited the deployable funds of the plan
StaleBalanceWithdrawsAndDeposits ==
    /\ pc = "sleep"
    /\ ~BalanceAsInSnapshot
    /\ withdraw_calls # <<>>
    /\ deposit_calls # <<>>
    /\ SumAmounts(deposit_calls) = plan.deployable_funds


\* C33: when the snapshot fetch failed and the empty fallback snapshot is
\* used, or when the liquidity read failed and gave 0, the cycle issues no
\* withdraw and no deposit call, whether or not the executor runs: with an
\* available_liquidity of 0 in the snapshot of the cycle both series of
\* calls stay empty up to the sleep.
C33_NoCallsWithoutLiquidity ==
    /\ (pc \in {"calculate", "decide", "ensure", "withdraw", "deploy", "sleep"}
          /\ snapshot.available_liquidity = RZero) =>
             /\ withdraw_calls = <<>>
             /\ deposit_calls = <<>>
             /\ pc # "withdraw"
    /\ (PlanReady /\ snapshot.available_liquidity = RZero) =>
             /\ plan.deployable_funds = RZero
             /\ RequiredAmount(plan) = RZero

\* the snapshot fetch failed, the trigger fired on the fallback snapshot and
\* the executor has run to its end without a call
C33_Witness ==
    /\ pc = "sleep"
    /\ error
    /\ snapshot = FallbackSnapshot
    /\ plan.should_rebalance
    /\ ExecutorRan
    /\ last_rebalance_writes = 1
    /\ withdraw_calls = <<>>
    /\ deposit_calls = <<>>


\* C34: the ascending-APY order of the withdrawals of phase 1 is consistent
\* with the strategy_apys of the plan that triggered the execution: the APY
\* of each strategy is read once per cycle, so the pairs the withdrawal loop
\* goes through carry the APYs of the plan and are ascending in them.
C34_WithdrawOrderFollowsPlanApys ==
    pc = "withdraw" =>
        /\ \A i \in 1..Len(strategies_by_apy) :
              strategies_by_apy[i].apy = plan.strategy_apys[strategies_by_apy[i].name]
        /\ \A i, j \in 1..Len(strategies_by_apy) :
              i < j => RLe(plan.strategy_apys[strategies_by_apy[i].name],
                           plan.strategy_apys[strategies_by_apy[j].name])


\* C35: policy events drive rebalances conditionally. The dispatch and a
\* PolicyCreated event (like an event of an unknown type) fetch no snapshot
\* and issue no call; a PolicyPurchased event either finds no policy and
\* does nothing, or plans on a fresh snapshot and runs the executor exactly
\* when current_reserve_ratio is below the 0.15 target; a PolicySettled event
\* plans on a fresh snapshot and runs the executor exactly when
\* deployable_funds exceeds 1000; the executor is entered from these two
\* handlers only, and withdraw and deposit calls are issued by it only.
C35_EventsRebalanceConditionally ==
    /\ [][(pc \in {"idle", "on_policy_created"}) =>
             (/\ UNCHANGED cycle_vars
              /\ pc = "on_policy_created" => pc' = "handled")]_vars
    /\ [][(pc = "on_policy_purchased") =>
             (\/ pc' = "handled" /\ UNCHANGED cycle_vars
              \/ /\ snapshot' # NoSnapshot
                 /\ plan' = CalculateIntegratedAllocation(snapshot', plan'.strategy_apys)
                 /\ pc' = (IF RLt(plan'.current_reserve_ratio, R(15, 100))
                           THEN "ensure" ELSE "handled"))]_vars
    /\ [][(pc = "on_policy_settled") =>
             (/\ snapshot' # NoSnapshot
              /\ plan' = CalculateIntegratedAllocation(snapshot', plan'.strategy_apys)
              /\ pc' = (IF RGt(plan'.deployable_funds, RInt(1000))
                        THEN "ensure" ELSE "handled"))]_vars
    /\ [][(pc' = "ensure" /\ pc # "ensure") =>
             pc \in {"on_policy_purchased", "on_policy_settled"}]_vars
    /\ [][(Len(withdraw_calls') > Len(withdraw_calls)
             \/ Len(deposit_calls') > Len(deposit_calls)) =>
                (pc \in {"withdraw", "deploy"} /\ ExecutorRan)]_vars

\* a settlement left funds to deploy, but not above 1000: the handler has
\* made its plan and returns without running the executor, which an earlier
\* event had run to its end
C35_Witness ==
    /\ pc = "handled"
    /\ snapshot # NoSnapshot
    /\ RGt(plan.deployable_funds, RZero)
    /\ ~RGt(plan.deployable_funds, RInt(1000))
    /\ ~ExecutorRan
    /\ deposit_calls = <<>>
    /\ last_rebalance = Now


(***************************************************************************)
(* The workflow graph of create_mantle_vault_agent as                      *)
(* MantleVaultAgent.start_monitoring invokes it: the nodes analyze,        *)
(* calculate, execute and monitor, the edges analyze -> calculate ->       *)
(* execute, and the conditional edges that monitor_and_decide routes from  *)
(* execute and from monitor to analyze or to monitor. No edge of the graph *)
(* leads to END: an invocation stops only when the graph library gives up  *)
(* after its limit of steps and raises, which start_monitoring catches.    *)
(***************************************************************************)
\* the steps the graph library runs before it raises GraphRecursionError:
\* its default, config_dict sets no recursion_limit
RecursionLimit == 25

\* the values analyze_performance can leave in state["rebalance_signals"]
RebalanceSignals ==
    {<<>>,
     <<"Switch to recommended strategy">>,
     <<"Consider higher risk allocation">>,
     <<"Switch to recommended strategy", "Consider higher risk allocation">>}

\* monitor_and_decide: apy_spread_seen is whether the vault status text holds
\* both "apy_spread" and "1.0"
MonitorAndDecide(rebalance_signals, apy_spread_seen) ==
    IF apy_spread_seen THEN "rebalance"
    ELSE IF Len(rebalance_signals) > 0 THEN "rebalance"
    ELSE "monitor"

\* the conditional edges of execute and of monitor: the node a decision leads to
ConditionalEdge(decision) ==
    CASE decision = "rebalance" -> "analyze"
      [] decision = "monitor" -> "monitor"

graph_rest == <<pc, snapshot, plan, current_balance, ensure_locals, didx,
                withdraw_calls, deposit_calls, error, rebalance_log,
                last_rebalance_writes, manager, api_manager>>

\* start_monitoring: self.running = True, then the while loop
StartMonitoringLoop ==
    /\ agent_graph.node = "none"
    /\ running' = TRUE
    /\ agent_graph' = [agent_graph EXCEPT !.node = "test"]
    /\ UNCHANGED <<graph_rest, last_rebalance, sleep_seconds, stop_called, tasks>>

\* while self.running: agent_graph.ainvoke(initial_state, config_dict) enters
\* the graph at its entry point; else start_monitoring returns
InvokeGraph ==
    /\ agent_graph.node = "test"
    /\ agent_graph' = IF running
                      THEN [node |-> "analyze", rebalance_signals |-> <<>>, steps |-> 0]
                      ELSE [agent_graph EXCEPT !.node = "returned"]
    /\ UNCHANGED <<graph_rest, last_rebalance, sleep_seconds, running, stop_called, tasks>>

\* node analyze: analyze_performance sets the rebalance signals
AnalyzePerformance ==
    /\ agent_graph.node = "analyze"
    /\ agent_graph.steps < RecursionLimit
    /\ \E signals \in RebalanceSignals :
          agent_graph' = [node |-> "calculate", rebalance_signals |-> signals,
                          steps |-> agent_graph.steps + 1]
    /\ UNCHANGED <<graph_rest, last_rebalance, sleep_seconds, running, stop_called, tasks>>

\* node calculate: calculate_allocation appends a message
GraphCalculateAllocation ==
    /\ agent_graph.node = "calculate"
    /\ agent_graph.steps < RecursionLimit
    /\ agent_graph' = [agent_graph EXCEPT !.node = "execute", !.steps = @ + 1]
    /\ UNCHANGED <<graph_rest, last_rebalance, sleep_seconds, running, stop_called, tasks>>

\* node execute: execute_strategy calls the execute_rebalance tool with the
\* 45/35/20 allocation and awaits it
ExecuteStrategy ==
    /\ agent_graph.node = "execute"
    /\ agent_graph.steps < RecursionLimit
    /\ tasks = <<>>
    /\ tasks' = <<NewTask(ManualAllocations)>>
    /\ agent_graph' = [agent_graph EXCEPT !.node = "executing", !.steps = @ + 1]
    /\ UNCHANGED <<graph_rest, last_rebalance, sleep_seconds, running, stop_called>>

\* execute_strategy after the tool returned:
\* state["vault_state"].last_rebalance = datetime.now(), then the
\* conditional edge of execute is taken
ExecuteStrategyReturn ==
    /\ agent_graph.node = "executing"
    /\ Len(tasks) = 1
    /\ tasks[1].pc = "done"
    /\ tasks' = <<>>
    /\ last_rebalance' = Now
    /\ agent_graph' = [agent_graph EXCEPT !.node = "decide"]
    /\ UNCHANGED <<graph_rest, sleep_seconds, running, stop_called>>

\* node monitor: lambda state: state, then the conditional edge of monitor
Monitor ==
    /\ agent_graph.node = "monitor"
    /\ agent_graph.steps < RecursionLimit
    /\ agent_graph' = [agent_graph EXCEPT !.node = "decide", !.steps = @ + 1]
    /\ UNCHANGED <<graph_rest, last_rebalance, sleep_seconds, running, stop_called, tasks>>

\* the conditional edge after execute or monitor: monitor_and_decide reads
\* the vault status and names the next node
TakeConditionalEdge ==
    /\ agent_graph.node = "decide"
    /\ \E apy_spread_seen \in BOOLEAN :
          agent_graph' =
             [agent_graph EXCEPT !.node =
                 ConditionalEdge(MonitorAndDecide(agent_graph.rebalance_signals,
                                                  apy_spread_seen))]
    /\ UNCHANGED <<graph_rest, last_rebalance, sleep_seconds, running, stop_called, tasks>>

\* the step limit is reached with a node still to run: ainvoke raises, and
\* the except of start_monitoring logs the error and sleeps 60 seconds
GraphRecursionError ==
    /\ agent_graph.node \in {"analyze", "calculate", "execute", "monitor"}
    /\ agent_graph.steps >= RecursionLimit
    /\ agent_graph' = [agent_graph EXCEPT !.node = "test"]
    /\ sleep_seconds' = 60
    /\ UNCHANGED <<graph_rest, last_rebalance, running, stop_called, tasks>>

GraphNext ==
    \/ StartMonitoringLoop
    \/ StopMonitoring
    \/ InvokeGraph
    \/ AnalyzePerformance
    \/ GraphCalculateAllocation
    \/ ExecuteStrategy
    \/ \E i \in 1..Len(tasks) : TaskReadBalance(i)
    \/ \E i \in 1..Len(tasks) : TaskDeployCall(i)
    \/ \E i \in 1..Len(tasks) : TaskDeployReturn(i)
    \/ \E i \in 1..Len(tasks) : TaskFinish(i)
    \/ ExecuteStrategyReturn
    \/ Monitor
    \/ TakeConditionalEdge
    \/ GraphRecursionError

SpecGraph == InitLoop /\ [][GraphNext]_vars

\* a step of the loop of start_monitoring or of the graph it invokes
GraphStep ==
    \/ InvokeGraph
    \/ AnalyzePerformance
    \/ GraphCalculateAllocation
    \/ ExecuteStrategy
    \/ ExecuteStrategyReturn
    \/ Monitor
    \/ TakeConditionalEdge
    \/ GraphRecursionError

\* the balance read of execute_rebalance is answered: enabled exactly where
\* TaskReadBalance is, and every step of TaskReadBalance disables it
BalanceReadAnswered ==
    \E i \in 1..Len(tasks) :
        /\ tasks[i].pc = "start"
        /\ tasks' = [tasks EXCEPT ![i] = DoneTask(@.target_allocations)]
        /\ UNCHANGED <<pc, cycle_vars, server_vars, running, stop_called>>

\* a step of execute_rebalance after its balance read
DeployStep ==
    \/ \E i \in 1..Len(tasks) : TaskDeployCall(i)
    \/ \E i \in 1..Len(tasks) : TaskDeployReturn(i)
    \/ \E i \in 1..Len(tasks) : TaskFinish(i)

\* the event loop runs every coroutine that can go on: the loop and its
\* graph, and the tool call the graph awaits
SpecGraphFair ==
    /\ SpecGraph
    /\ WF_vars(GraphStep)
    /\ WF_vars(BalanceReadAnswered)
    /\ WF_vars(DeployStep)

\* ainvoke returned a result: the graph reached END
GraphEnded == agent_graph.node = "END"

\* an invocation is in flight
GraphInvoked == agent_graph.node \in
    {"analyze", "calculate", "execute", "executing", "decide", "monitor"}

\* C36: one invocation of the workflow graph eventually terminates: from its
\* entry at analyze it reaches a terminal state, whatever monitor_and_decide
\* returns
C36_InvocationTerminates == GraphInvoked ~> GraphEnded

\* no state of the graph is terminal: END is never reached
GraphNeverEnds == ~GraphEnded

\* an invocation is stopped by the step limit, and the loop invokes again
GraphStoppedByLimit ==
    /\ agent_graph.node = "test"
    /\ agent_graph.steps = RecursionLimit
    /\ sleep_seconds = 60


(***************************************************************************)
(* ConnectionManager: the list of websocket connections of the server, and *)
(* broadcast, which iterates over that list and removes from it, inside    *)
(* the iteration, each connection whose send raises. A Python list         *)
(* iterator holds an index into the list: after a removal at the index the *)
(* elements behind it move one place down and the iterator goes on at      *)
(* index + 1. Connections are accepted and dropped between broadcasts.     *)
(***************************************************************************)
Connections == 1..MaxConnections

\* the elements of a list
Elements(list) == {list[i] : i \in 1..Len(list)}

\* list.remove(x): the list without the first occurrence of x
ListRemove(list, x) ==
    LET first == CHOOSE i \in 1..Len(list) :
                    /\ list[i] = x
                    /\ \A j \in 1..(i - 1) : list[j] # x
    IN  [i \in 1..(Len(list) - 1) |-> IF i < first THEN list[i] ELSE list[i + 1]]

\* ConnectionManager.connect: the websocket is accepted and appended
Connect ==
    /\ manager.broadcast # "sending"
    /\ \E websocket \in Connections \ Elements(manager.active_connections) :
          manager' = [NoConnections EXCEPT !.active_connections =
                         Append(manager.active_connections, websocket)]
    /\ UNCHANGED <<pc, cycle_vars, running, stop_called, tasks, agent_graph, api_manager>>

\* ConnectionManager.disconnect on WebSocketDisconnect in websocket_endpoint
Disconnect ==
    /\ manager.broadcast # "sending"
    /\ \E websocket \in Elements(manager.active_connections) :
          manager' = [NoConnections EXCEPT !.active_connections =
                         ListRemove(manager.active_connections, websocket)]
    /\ UNCHANGED <<pc, cycle_vars, running, stop_called, tasks, agent_graph, api_manager>>

\* ConnectionManager.broadcast is called: the for loop starts at index 0;
\* stale are the connections whose send_text raises during this broadcast
Broadcast ==
    /\ manager.broadcast # "sending"
    /\ \E stale \in SUBSET Elements(manager.active_connections) :
          manager' = [active_connections |-> manager.active_connections,
                      broadcast |-> "sending", position |-> 0,
                      at_start |-> manager.active_connections,
                      stale |-> stale, attempted |-> {}]
    /\ UNCHANGED <<pc, cycle_vars, running, stop_called, tasks, agent_graph, api_manager>>

\* one iteration of the for loop: the connection at the iterator's index is
\* sent to; if the send raises it is removed from the list being iterated
BroadcastSend ==
    /\ manager.broadcast = "sending"
    /\ manager.position < Len(manager.active_connections)
    /\ LET connection == manager.active_connections[manager.position + 1]
       IN  manager' = [manager EXCEPT
              !.attempted = @ \cup {connection},
              !.active_connections =
                  IF connection \in manager.stale THEN ListRemove(@, connection) ELSE @,
              !.position = @ + 1]
    /\ UNCHANGED <<pc, cycle_vars, running, stop_called, tasks, agent_graph, api_manager>>

\* the iterator's index is at or past the end of the list: broadcast returns
BroadcastReturn ==
    /\ manager.broadcast = "sending"
    /\ manager.position >= Len(manager.active_connections)
    /\ manager' = [manager EXCEPT !.broadcast = "returned"]
    /\ UNCHANGED <<pc, cycle_vars, running, stop_called, tasks, agent_graph, api_manager>>

BroadcastNext ==
    \/ Connect
    \/ Disconnect
    \/ Broadcast
    \/ BroadcastSend
    \/ BroadcastReturn

SpecBroadcast == InitLoop /\ [][BroadcastNext]_vars

\* C37: broadcast attempts to send to every connection that was in
\* active_connections when it started, and when it has returned every
\* connection whose send fails has been removed and every connection whose
\* send succeeds is still registered, wherever the failing connections are
C37_BroadcastPrunesFailed ==
    manager.broadcast = "returned" =>
        /\ manager.attempted = Elements(manager.at_start)
        /\ \A connection \in Elements(manager.at_start) :
              connection \in Elements(manager.active_connections)
                  <=> connection \notin manager.stale

\* what does hold: a connection that was sent to is registered after the
\* broadcast exactly if its send succeeded, and one that was not sent to
\* is still registered
BroadcastPrunesAttempted ==
    manager.broadcast = "returned" =>
        \A connection \in Elements(manager.at_start) :
            connection \in Elements(manager.active_connections)
                <=> (connection \notin manager.attempted
                        \/ connection \notin manager.stale)

\* a broadcast has passed over the connection behind a failed one
BroadcastSkipsConnection ==
    /\ manager.broadcast = "returned"
    /\ manager.attempted # Elements(manager.at_start)
    /\ manager.attempted \cap manager.stale # {}


(***************************************************************************)
(* MantleAPIManager.get_all_strategy_apys and its cache entry              *)
(* "strategy_apys". time is time.time() in whole seconds; the clock moves  *)
(* between the calls and while a fetch is awaited. One call is in flight   *)
(* at a time.                                                              *)
(***************************************************************************)
\* self.cache_ttl = 300
CacheTtl == 300

\* the steps of the clock: two of the longer make an age of exactly
\* cache_ttl, one of each an age of one second less
ClockSteps == {CacheTtl \div 2, CacheTtl \div 2 - 1}

\* what asyncio.gather(..., return_exceptions=True) gives for each API:
\* an exception (None) or the APY
InitApiResults == {None, Some(R(92, 10)), Some(R(101, 10))}
CircuitApiResults == {None, Some(R(73, 10))}
StakingApiResults == {None, Some(RInt(5))}

\* the mapping returned by the outer except of get_all_strategy_apys
ApiFallbackApys ==
    [s \in Strategies |->
        CASE s = "init_looping" -> R(85, 10)
          [] s = "circuit_vault" -> R(68, 10)
          [] s = "mnt_staking" -> R(45, 10)]

\* result of get_all_strategy_apys: an exception among the gathered results
\* is replaced by the fallback of its strategy
ApiResult(init_apy, circuit_apy, staking_apy) ==
    [s \in Strategies |->
        CASE s = "init_looping" ->
                IF init_apy = None THEN R(85, 10) ELSE init_apy[1]
          [] s = "circuit_vault" ->
                IF circuit_apy = None THEN R(68, 10) ELSE circuit_apy[1]
          [] s = "mnt_staking" ->
                IF staking_apy = None THEN R(45, 10) ELSE staking_apy[1]]

\* faulty variant: an entry is still valid at the age of cache_ttl
IsCachedInclusive(cache, now) ==
    IF cache = <<>> THEN FALSE
    ELSE now - cache[1].timestamp <= CacheTtl

\* _is_cached("strategy_apys") at time now
IsCached(cache, now) ==
    IF cache = <<>> THEN FALSE
    ELSE now - cache[1].timestamp < CacheTtl

\* _cache_data("strategy_apys", data) at time now
CacheData(data, now) == <<[data |-> data, timestamp |-> now]>>

\* time passes
Tick ==
    /\ \E seconds \in ClockSteps :
          /\ api_manager.time + seconds <= MaxTime
          /\ api_manager' = [api_manager EXCEPT !.time = @ + seconds]
    /\ UNCHANGED <<pc, cycle_vars, running, stop_called, tasks, agent_graph, manager>>

\* get_all_strategy_apys is called: a valid cache entry is returned at once,
\* else the three APY fetches are started and awaited
GetAllStrategyApys ==
    /\ ~api_manager.calling
    /\ api_manager' =
          IF IsCached(api_manager.cache, api_manager.time)
          THEN [api_manager EXCEPT
                   !.called_at = api_manager.time,
                   !.returned = <<[data |-> api_manager.cache[1].data,
                                   source |-> "cache"]>>]
          ELSE [api_manager EXCEPT
                   !.calling = TRUE,
                   !.called_at = api_manager.time,
                   !.returned = <<>>]
    /\ UNCHANGED <<pc, cycle_vars, running, stop_called, tasks, agent_graph, manager>>

\* the gather returns: exceptions are replaced by fallbacks, the result is
\* cached with the time of this moment and returned
FetchReturn ==
    /\ api_manager.calling
    /\ \E init_apy \in InitApiResults, circuit_apy \in CircuitApiResults,
          staking_apy \in StakingApiResults :
          LET result == ApiResult(init_apy, circuit_apy, staking_apy)
          IN  api_manager' = [api_manager EXCEPT
                 !.calling = FALSE,
                 !.cache = CacheData(result, api_manager.time),
                 !.returned = <<[data |-> result, source |-> "fetch"]>>]
    /\ UNCHANGED <<pc, cycle_vars, running, stop_called, tasks, agent_graph, manager>>

\* an exception is raised inside the try block: the outer except returns the
\* three fallbacks and does not touch the cache
FetchError ==
    /\ api_manager.calling
    /\ api_manager' = [api_manager EXCEPT
          !.calling = FALSE,
          !.returned = <<[data |-> ApiFallbackApys, source |-> "error"]>>]
    /\ UNCHANGED <<pc, cycle_vars, running, stop_called, tasks, agent_graph, manager>>

CacheNext ==
    \/ Tick
    \/ GetAllStrategyApys
    \/ FetchReturn
    \/ FetchError

SpecApyCache == InitLoop /\ [][CacheNext]_vars

\* the step is a call of get_all_strategy_apys
CallStep ==
    /\ ~api_manager.calling
    /\ api_manager'.time = api_manager.time
    /\ api_manager' # api_manager

\* the step ends a call in flight
CompletionStep == api_manager.calling /\ ~api_manager'.calling

\* there is an entry of a fetch and the call comes less than cache_ttl
\* seconds after it
WithinTtl ==
    /\ api_manager.cache # <<>>
    /\ api_manager.time - api_manager.cache[1].timestamp < 300

\* some but not all values of the mapping are fallbacks
PartlySubstituted(data) ==
    /\ \E s \in Strategies : data[s] = ApiFallbackApys[s]
    /\ \E s \in Strategies : data[s] # ApiFallbackApys[s]

\* C38: get_all_strategy_apys serves from its cache: a call less than
\* cache_ttl (300 s) after a successful fetch returns the cached mapping and
\* starts no fetch; a call at or after the TTL, or with no entry, fetches
\* again; the result of a fetch is cached with the time of the fetch,
\* substituted fallbacks or not; the all-fallback mapping of the outer error
\* path is returned without touching the cache
C38_ServesFromCache ==
    /\ [][(CallStep /\ WithinTtl) =>
             (/\ ~api_manager'.calling
              /\ api_manager'.cache = api_manager.cache
              /\ api_manager'.returned =
                    <<[data |-> api_manager.cache[1].data, source |-> "cache"]>>)]_vars
    /\ [][(CallStep /\ ~WithinTtl) =>
             (/\ api_manager'.calling
              /\ api_manager'.returned = <<>>
              /\ api_manager'.cache = api_manager.cache)]_vars
    /\ [][(CompletionStep /\ api_manager'.returned[1].source = "fetch") =>
             (api_manager'.cache =
                 <<[data |-> api_manager'.returned[1].data,
                    timestamp |-> api_manager.time]>>)]_vars
    /\ [][(CompletionStep /\ api_manager'.returned[1].source # "fetch") =>
             (/\ api_manager'.returned[1].data = ApiFallbackApys
              /\ api_manager'.cache = api_manager.cache)]_vars

\* a call one second before the TTL is answered from the cache with a
\* mapping in which a fallback was substituted for one failed fetch
C38_Witness ==
    /\ ~api_manager.calling
    /\ api_manager.returned # <<>>
    /\ api_manager.returned[1].source = "cache"
    /\ api_manager.cache # <<>>
    /\ api_manager.called_at - api_manager.cache[1].timestamp = CacheTtl - 1
    /\ api_manager.returned[1].data = api_manager.cache[1].data
    /\ PartlySubstituted(api_manager.returned[1].data)

\* a call exactly cache_ttl seconds after the fetch fetches again
RefetchAtTtl ==
    /\ api_manager.calling
    /\ api_manager.cache # <<>>
    /\ api_manager.called_at - api_manager.cache[1].timestamp = CacheTtl

\* the outer error path answered while an older entry stays in the cache
ErrorLeavesCache ==
    /\ api_manager.returned # <<>>
    /\ api_manager.returned[1].source = "error"
    /\ api_manager.cache # <<>>
    /\ api_manager.cache[1].data # ApiFallbackApys

====
